---- MODULE Spec2Model ----
(***************************************************************************)
(* digin: bottom-up traversal (traverser.py), directory-level digest cache *)
(* (cache.py), aggregation of child digests (aggregator.py) and the run    *)
(* loop of the orchestrator (analyzer.py).                                 *)
(*                                                                         *)
(* A directory is a path relative to the analysed root: the sequence of    *)
(* the names leading to it, the root being << >>.  A name is a sequence of *)
(* characters, so that hidden names, extensions and glob patterns are      *)
(* computed from the name as the code computes them.                       *)
(***************************************************************************)
EXTENDS Naturals, Integers, Sequences, FiniteSets, TLC

VARIABLES
    dirs,        \* the directories that exist under the root (paths), root included
    rootName,    \* root_path.name
    unreadable,  \* directories whose listing raises PermissionError
    lsRev,       \* the order Path.iterdir() lists entries in: name order or its reverse
    settings,    \* DigginSettings (read-only during an operation)
    files,       \* files[d]: the regular files of d, cache artifacts excluded
    digestFile,  \* digestFile[d]: state and content of d/digest.json
    hashFile,    \* hashFile[d]: state and content of d/.digin_hash
    pc,          \* position of the caller: "idle", "running", "done", "raised", ...
    order,       \* analysis_order of the current / last call
    idx,         \* loop index of CodebaseAnalyzer.analyze into order (1-based, next to process)
    digests,     \* the completed-digests map of the run: path -> digest
    stats,       \* CodebaseAnalyzer.stats
    ret,         \* what the last operation returned or raised
    hist         \* observation of the run: per-directory outcome, calls made, arguments passed

treeVars == <<dirs, rootName, unreadable, lsRev>>
fsVars == <<files, digestFile, hashFile>>
runVars == <<pc, order, idx, digests, stats, ret, hist>>
vars == <<dirs, rootName, unreadable, lsRev, settings, files, digestFile, hashFile,
          pc, order, idx, digests, stats, ret, hist>>

\* ------------------------------------------------------------------ bounds
MaxDepth == 2        \* deepest directory below the root
MaxDirs == 5         \* directories of a tree, root included
MaxUnreadable == 1   \* directories made unreadable
MaxHashDirs == 3     \* directories of a tree whose fingerprints are computed
MaxFiles == 1        \* user files in the whole tree
MaxMtime == 2        \* modification times run over 1..MaxMtime
MaxContent == 1      \* bytes of a small file

\* ------------------------------------------------------------------ names
\* root_path.parent, a directory outside the analysed tree
RootParent == << <<"/">> >>

\* Code points of the characters that occur in the model's names (str comparison).
Ord(c) ==
    CASE c = "*" -> 42 [] c = "." -> 46 [] c = "a" -> 97 [] c = "b" -> 98
      [] c = "d" -> 100 [] c = "g" -> 103 [] c = "h" -> 104 [] c = "j" -> 106
      [] c = "m" -> 109 [] c = "n" -> 110 [] c = "o" -> 111 [] c = "p" -> 112
      [] c = "s" -> 115 [] c = "y" -> 121 [] c = "_" -> 95 [] c = "i" -> 105
      [] c = "e" -> 101 [] c = "t" -> 116 [] c = "c" -> 99 [] OTHER -> 0

\* s < t for two strings (sequences of characters), as Python compares str.
RECURSIVE StrLess(_, _)
StrLess(s, t) ==
    IF t = << >> THEN FALSE
    ELSE IF s = << >> THEN TRUE
    ELSE IF Head(s) = Head(t) THEN StrLess(Tail(s), Tail(t))
    ELSE Ord(Head(s)) < Ord(Head(t))

\* p < q for two paths: pathlib compares the tuples of parts.
RECURSIVE PathLess(_, _)
PathLess(p, q) ==
    IF q = << >> THEN FALSE
    ELSE IF p = << >> THEN TRUE
    ELSE IF Head(p) = Head(q) THEN PathLess(Tail(p), Tail(q))
    ELSE StrLess(Head(p), Head(q))

\* sorted(S) for a set of paths.
RECURSIVE SortPaths(_)
SortPaths(S) ==
    IF S = {} THEN << >>
    ELSE LET m == CHOOSE x \in S : \A y \in S \ {x} : PathLess(x, y)
         IN <<m>> \o SortPaths(S \ {m})

\* sorted(S) for a set of names.
RECURSIVE SortNames(_)
SortNames(S) ==
    IF S = {} THEN << >>
    ELSE LET m == CHOOSE x \in S : \A y \in S \ {x} : StrLess(x, y)
         IN <<m>> \o SortNames(S \ {m})

Reverse(s) == [i \in 1..Len(s) |-> s[Len(s) + 1 - i]]

Range(s) == {s[i] : i \in 1..Len(s)}

\* fnmatch.fnmatch(name, pattern) for patterns of literal characters and "*".
RECURSIVE FnMatch(_, _)
FnMatch(name, pat) ==
    IF pat = << >> THEN name = << >>
    ELSE IF Head(pat) = "*"
         THEN \/ FnMatch(name, Tail(pat))
              \/ name # << >> /\ FnMatch(Tail(name), pat)
    ELSE /\ name # << >>
         /\ Head(name) = Head(pat)
         /\ FnMatch(Tail(name), Tail(pat))

StartsWithDot(name) == name # << >> /\ Head(name) = "."

\* ------------------------------------------------------------------ tree
DirNames == { <<"a">>, <<"b">>, <<".", "g">> }
DirPatterns == { <<"b", "*">> }      \* the globs ignore_dirs is drawn from

Root == << >>

\* directory.name
Name(d) == IF d = Root THEN rootName ELSE d[Len(d)]

\* directory.parent
Parent(d) == IF d = Root THEN RootParent ELSE SubSeq(d, 1, Len(d) - 1)

\* the subdirectories of d (entries e of d with e.is_dir())
Children(d) == {c \in dirs : c # Root /\ Parent(c) = d}

\* list(d.iterdir()) restricted to directories, in the order the file system lists them
ListDirs(d) ==
    LET byName == SortPaths(Children(d))
    IN IF lsRev THEN Reverse(byName) ELSE byName

\* ------------------------------------------------------------------ traverser.py
\* DirectoryTraverser._should_ignore_directory
ShouldIgnoreDirectory(d) ==
    \/ settings.ignore_hidden /\ StartsWithDot(Name(d))
    \/ \E pat \in settings.ignore_dirs : FnMatch(Name(d), pat)

\* the subdirs list built by _scan_directory: the non-ignored child directories
VisibleChildren(d) == {c \in Children(d) : ~ShouldIgnoreDirectory(c)}

\* _scan_directory: the leaves appended while scanning d.  A listing that raises
\* PermissionError returns before anything is appended.
RECURSIVE ScanDirectory(_)
ScanDirectory(d) ==
    IF d \in unreadable THEN {}
    ELSE IF VisibleChildren(d) = {} THEN {d}
    ELSE UNION {ScanDirectory(c) : c \in VisibleChildren(d)}

\* leaf_dirs as _scan_directory appends to it: depth first, each directory's
\* subdirectories in the order the file system lists them
RECURSIVE ScanInListingOrder(_)
ScanInListingOrder(d) ==
    IF d \in unreadable THEN << >>
    ELSE LET subdirs == SelectSeq(ListDirs(d), LAMBDA c : ~ShouldIgnoreDirectory(c))
             RECURSIVE each(_)
             each(i) == IF i > Len(subdirs) THEN << >>
                        ELSE ScanInListingOrder(subdirs[i]) \o each(i + 1)
         IN IF subdirs = << >> THEN <<d>> ELSE each(1)

\* a faulty variant: leaf_dirs is returned as it was appended to, unsorted
FindLeafDirectoriesMut ==
    IF ~ShouldIgnoreDirectory(Root) THEN ScanInListingOrder(Root) ELSE << >>
\* DirectoryTraverser.find_leaf_directories
FindLeafDirectories ==
    IF ~ShouldIgnoreDirectory(Root) THEN SortPaths(ScanDirectory(Root)) ELSE << >>

\* DirectoryTraverser._should_skip_parent
ShouldSkipParent(parent, processed) ==
    \/ parent = RootParent
    \/ parent \in processed
    \/ ShouldIgnoreDirectory(parent)

\* DirectoryTraverser._all_children_processed
AllChildrenProcessed(parent, processed) ==
    IF parent \in unreadable THEN FALSE
    ELSE \A c \in Children(parent) : ShouldIgnoreDirectory(c) \/ c \in processed

\* DirectoryTraverser._get_next_level_parents: the loop over current_level from
\* position i on; processed is mutated as parents are promoted.
RECURSIVE GetNextLevelParents(_, _, _, _)
GetNextLevelParents(current, i, processed, next) ==
    IF i > Len(current) THEN [next |-> next, processed |-> processed]
    ELSE LET parent == Parent(current[i])
         IN IF ShouldSkipParent(parent, processed)
            THEN GetNextLevelParents(current, i + 1, processed, next)
            ELSE IF AllChildrenProcessed(parent, processed) /\ parent \notin Range(next)
            THEN GetNextLevelParents(current, i + 1, processed \cup {parent},
                                     Append(next, parent))
            ELSE GetNextLevelParents(current, i + 1, processed, next)

\* the while loop of get_analysis_order
RECURSIVE PromoteLevels(_, _, _)
PromoteLevels(analysis, current, processed) ==
    IF current = << >> THEN analysis
    ELSE LET r == GetNextLevelParents(current, 1, processed, << >>)
         IN PromoteLevels(analysis \o r.next, r.next, r.processed)

\* DirectoryTraverser.get_analysis_order
GetAnalysisOrder ==
    LET leaf_dirs == FindLeafDirectories
        promoted == PromoteLevels(leaf_dirs, leaf_dirs, Range(leaf_dirs))
    IN IF Root \notin Range(promoted) THEN Append(promoted, Root) ELSE promoted

\* ------------------------------------------------------------------ files
DigestFileName == <<"d", "i", "g", "e", "s", "t", ".", "j", "s", "o", "n">>
HashFileName == <<".", "d", "i", "g", "i", "n", "_", "h", "a", "s", "h">>

\* the user files the model creates, and the bytes they hold
FileNames == { <<"m", ".", "p", "y">>, <<"m", ".", "g", "o">> }
Bytes == {"x", "y"}

\* one decimal digit / str(n) for a natural number
DigitChar(k) ==
    CASE k = 0 -> "0" [] k = 1 -> "1" [] k = 2 -> "2" [] k = 3 -> "3" [] k = 4 -> "4"
      [] k = 5 -> "5" [] k = 6 -> "6" [] k = 7 -> "7" [] k = 8 -> "8" [] OTHER -> "9"

RECURSIVE StrInt(_)
StrInt(n) == IF n < 10 THEN <<DigitChar(n)>> ELSE Append(StrInt(n \div 10), DigitChar(n % 10))

\* str(stat.st_mtime): the repr of a float holding a whole number of seconds
StrFloat(m) == StrInt(m) \o <<".", "0">>

\* the last position of "." in name, 0 when there is none (str.rfind + 1)
RECURSIVE RFindDot(_, _)
RFindDot(name, i) ==
    IF i = 0 THEN 0 ELSE IF name[i] = "." THEN i ELSE RFindDot(name, i - 1)

\* Path.suffix.lower(): the names of the model are lower case
Suffix(name) ==
    LET i == RFindDot(name, Len(name))
    IN IF 1 < i /\ i < Len(name) THEN SubSeq(name, i, Len(name)) ELSE << >>

\* the entries of d that are regular files: the user's files and the two artifacts
\* the cache keeps beside them, when they exist (df, hf: the digest.json and
\* .digin_hash files as they are on disk at that moment)
ArtifactEntries(d, df, hf) ==
    (IF df[d].st = "absent" THEN {}
     ELSE {[name |-> DigestFileName, mtime |-> 1, size |-> Len(df[d].data), content |-> << >>]})
    \cup
    (IF hf[d].st = "absent" THEN {}
     ELSE {[name |-> HashFileName, mtime |-> 1, size |-> Len(hf[d].data), content |-> << >>]})

FileEntries(d, df, hf) == files[d] \cup ArtifactEntries(d, df, hf)

\* ------------------------------------------------------------------ cache.py
HashContentMax == 8192     \* content is hashed up to this size

\* text_extensions of CacheManager._is_text_file
TextExtensions ==
    { <<".", "t", "x", "t">>, <<".", "m", "d">>, <<".", "r", "s", "t">>,
      <<".", "j", "s", "o", "n">>, <<".", "y", "a", "m", "l">>, <<".", "y", "m", "l">>,
      <<".", "x", "m", "l">>, <<".", "h", "t", "m", "l">>, <<".", "c", "s", "s">>,
      <<".", "j", "s">>, <<".", "p", "y">>, <<".", "j", "a", "v", "a">>, <<".", "c">>,
      <<".", "c", "p", "p">>, <<".", "h">> }

\* CacheManager._is_text_file
CacheIsTextFile(name) ==
    Suffix(name) \in settings.include_extensions \/ Suffix(name) \in TextExtensions

\* CacheManager._should_ignore_file_by_patterns
ShouldIgnoreFileByPatterns(name) ==
    IF \E pat \in settings.ignore_files : FnMatch(name, pat) THEN TRUE
    ELSE IF settings.include_extensions # {}
         THEN Suffix(name) \notin settings.include_extensions
    ELSE FALSE

\* a faulty variant: the cache's own artifacts are hashed like any other file
ShouldIgnoreForHashMut(name) == ShouldIgnoreFileByPatterns(name)
\* CacheManager._should_ignore_for_hash
ShouldIgnoreForHash(name) ==
    IF name \in {DigestFileName, HashFileName} THEN TRUE
    ELSE ShouldIgnoreFileByPatterns(name)

\* CacheManager._get_files_to_hash: the entries to hash, sorted by str(path)
GetFilesToHash(d, df, hf) ==
    LET keep == {f \in FileEntries(d, df, hf) : ~ShouldIgnoreForHash(f.name)}
        names == SortNames({f.name : f \in keep})
    IN [i \in 1..Len(names) |-> CHOOSE f \in keep : f.name = names[i]]

\* CacheManager._hash_single_file / _hash_file_content: the bytes fed to the hasher
HashSingleFile(f) ==
    f.name \o StrFloat(f.mtime) \o StrInt(f.size)
      \o (IF f.size <= HashContentMax /\ CacheIsTextFile(f.name) THEN f.content ELSE << >>)

RECURSIVE HashFiles(_, _)
HashFiles(fs, i) ==
    IF i > Len(fs) THEN << >> ELSE HashSingleFile(fs[i]) \o HashFiles(fs, i + 1)

\* the loop over directory.iterdir() of _calculate_directory_hash: for every child
\* directory that has a .digin_hash, its relative path and its bytes.  The first
\* PermissionError (an unreadable .digin_hash) ends the loop.
RECURSIVE HashChildren(_, _, _)
HashChildren(cs, i, hf) ==
    IF i > Len(cs) THEN << >>
    ELSE LET h == hf[cs[i]]
         IN IF h.st = "absent" THEN HashChildren(cs, i + 1, hf)
            ELSE IF h.st = "unreadable" THEN << >>
            ELSE Name(cs[i]) \o <<"/">> \o HashFileName \o h.data
                   \o HashChildren(cs, i + 1, hf)

\* str(bool)
StrBool(b) == IF b THEN <<"True">> ELSE <<"False">>

\* the sorted config_items of _calculate_directory_hash ("api_provider:..." sorts
\* before "narrative_enabled:...")
ConfigItems ==
    <<"api_provider:", settings.api_provider>>
      \o <<"narrative_enabled:">> \o StrBool(settings.narrative_enabled)

\* CacheManager._calculate_directory_hash.  sha256 is taken to be injective: the
\* fingerprint is the byte stream fed to the hasher.  _get_files_to_hash lists the
\* directory outside any try, so an unreadable directory raises.
CalculateDirectoryHash(d, df, hf) ==
    IF d \in unreadable THEN [raised |-> TRUE, h |-> << >>]
    ELSE [raised |-> FALSE,
          h |-> ConfigItems \o HashFiles(GetFilesToHash(d, df, hf), 1)
                  \o HashChildren(ListDirs(d), 1, hf)]

\* a digest as the pipeline produces it.  wf: every member has the JSON type the
\* aggregator expects (an external analysis may answer any JSON object, for instance
\* one whose confidence is a string)
NoDigest ==
    [path |-> Root, kind |-> "none", confidence |-> 0, children |-> << >>, analyzed_at |-> 0,
     wf |-> TRUE]

\* json.dump(digest): the members in insertion order, each key with its value
JsonDump(x) ==
    << <<"path", x.path>>, <<"kind", x.kind>>, <<"confidence", x.confidence>>,
       <<"children", x.children>>, <<"analyzed_at", x.analyzed_at>>, <<"wf", x.wf>> >>

\* the value of member k of a parsed JSON object
JsonMember(t, k) == t[CHOOSE i \in 1..Len(t) : t[i][1] = k][2]

\* a faulty variant: the kind member is lost on the way back
JsonLoadMut(t) ==
    [path |-> JsonMember(t, "path"), kind |-> "unknown",
     confidence |-> JsonMember(t, "confidence"), children |-> JsonMember(t, "children"),
     analyzed_at |-> JsonMember(t, "analyzed_at"), wf |-> JsonMember(t, "wf")]
\* json.load(f)
JsonLoad(t) ==
    [path |-> JsonMember(t, "path"), kind |-> JsonMember(t, "kind"),
     confidence |-> JsonMember(t, "confidence"), children |-> JsonMember(t, "children"),
     analyzed_at |-> JsonMember(t, "analyzed_at"), wf |-> JsonMember(t, "wf")]

\* str.strip(): white space removed at both ends
WhiteSpace == {" ", "\n"}

RECURSIVE LStrip(_)
LStrip(t) == IF t # << >> /\ Head(t) \in WhiteSpace THEN LStrip(Tail(t)) ELSE t

Strip(t) == Reverse(LStrip(Reverse(LStrip(t))))

Miss == [kind |-> "miss", digest |-> NoDigest]
Raised == [kind |-> "raise", digest |-> NoDigest]

\* a faulty variant: the lookup goes ahead when caching is disabled
GetCachedDigestMut(d, df, hf) ==
    IF df[d].st = "absent" \/ hf[d].st = "absent" THEN Miss
    ELSE IF hf[d].st \in {"unreadable", "corrupt"} THEN Raised
    ELSE LET current == CalculateDirectoryHash(d, df, hf)
         IN IF current.raised THEN Raised
            ELSE IF Strip(hf[d].data) # current.h THEN Miss
            ELSE IF df[d].st \in {"unreadable", "corrupt"} THEN Raised
            ELSE [kind |-> "hit", digest |-> JsonLoad(df[d].data)]
\* CacheManager.get_cached_digest
GetCachedDigest(d, df, hf) ==
    IF ~settings.cache_enabled THEN Miss
    ELSE IF df[d].st = "absent" \/ hf[d].st = "absent" THEN Miss
    ELSE IF hf[d].st \in {"unreadable", "corrupt"} THEN Raised
    ELSE LET current == CalculateDirectoryHash(d, df, hf)
         IN IF current.raised THEN Raised
            ELSE IF Strip(hf[d].data) # current.h THEN Miss
            ELSE IF df[d].st \in {"unreadable", "corrupt"} THEN Raised
            ELSE [kind |-> "hit", digest |-> JsonLoad(df[d].data)]

\* CacheManager.save_digest: the files after the call, and whether it raised.
\* digest.json is written first; the hash is computed with it on disk.
SaveDigest(d, x, df, hf) ==
    IF ~settings.cache_enabled THEN [raised |-> FALSE, df |-> df, hf |-> hf]
    ELSE IF df[d].st = "unreadable" THEN [raised |-> TRUE, df |-> df, hf |-> hf]
    ELSE LET df1 == [df EXCEPT ![d] = [st |-> "ok", data |-> JsonDump(x)]]
             hash == CalculateDirectoryHash(d, df1, hf)
         IN IF hash.raised \/ hf[d].st = "unreadable"
            THEN [raised |-> TRUE, df |-> df1, hf |-> hf]
            ELSE [raised |-> FALSE, df |-> df1,
                  hf |-> [hf EXCEPT ![d] = [st |-> "ok", data |-> hash.h]]]

\* an artifact that does not exist
NoArtifact == [st |-> "absent", data |-> << >>]

\* directory.rglob("*") restricted to directories: every directory below d that is
\* reached by listing; a directory whose listing raises PermissionError is yielded
\* itself but not descended into
RECURSIVE RglobDirs(_)
RglobDirs(d) ==
    IF d \in unreadable THEN {}
    ELSE Children(d) \cup UNION {RglobDirs(c) : c \in Children(d)}

\* clear_single_dir of clear_cache: each artifact is unlinked when it exists
ClearSingleDir(d, df, hf) ==
    [df |-> [df EXCEPT ![d] = NoArtifact], hf |-> [hf EXCEPT ![d] = NoArtifact]]

RECURSIVE ClearDirs(_, _, _)
ClearDirs(ds, df, hf) ==
    IF ds = {} THEN [df |-> df, hf |-> hf]
    ELSE LET d == CHOOSE x \in ds : TRUE
             r == ClearSingleDir(d, df, hf)
         IN ClearDirs(ds \ {d}, r.df, r.hf)

\* CacheManager.clear_cache(d, recursive): the artifacts after the call
ClearCache(d, recursive, df, hf) ==
    ClearDirs({d} \cup (IF recursive THEN RglobDirs(d) ELSE {}), df, hf)

\* ------------------------------------------------------------------ environment
DefaultSettings ==
    [ignore_hidden |-> TRUE, ignore_dirs |-> {}, ignore_files |-> {},
     include_extensions |-> {}, narrative_enabled |-> TRUE, cache_enabled |-> TRUE,
     api_provider |-> "claude"]

NoDigests == [d \in {} |-> NoDigest]
NoReturn == [kind |-> "none", digest |-> NoDigest]
NoHist == [run |-> 0]

NoStats ==
    [directories_analyzed |-> 0, cache_hits |-> 0, cache_misses |-> 0,
     ai_calls |-> 0, errors |-> 0]

\* mkdir parent/n, before any operation runs, in a tree of fewer than n directories
MkdirUpTo(limit) ==
    /\ pc = "idle"
    /\ Cardinality(dirs) < limit
    /\ \E parent \in dirs, n \in DirNames :
          /\ Len(parent) < MaxDepth
          /\ Append(parent, n) \notin dirs
          /\ dirs' = dirs \cup {Append(parent, n)}
          /\ files' = [d \in dirs' |-> IF d \in dirs THEN files[d] ELSE {}]
          /\ digestFile' = [d \in dirs' |-> IF d \in dirs THEN digestFile[d] ELSE NoArtifact]
          /\ hashFile' = [d \in dirs' |-> IF d \in dirs THEN hashFile[d] ELSE NoArtifact]
    /\ UNCHANGED <<rootName, unreadable, lsRev, settings, runVars>>

Mkdir == MkdirUpTo(MaxDirs)

\* chmod a-r d: listing d raises PermissionError from now on
Chmod ==
    /\ pc = "idle"
    /\ Cardinality(unreadable) < MaxUnreadable
    /\ \E d \in dirs \ unreadable : unreadable' = unreadable \cup {d}
    /\ UNCHANGED <<dirs, rootName, lsRev, settings, fsVars, runVars>>

\* the contents a small file can hold: 1..MaxContent bytes
RECURSIVE Contents(_)
Contents(n) ==
    IF n = 0 THEN {<< >>}
    ELSE Contents(n - 1) \cup {Append(c, b) : c \in {x \in Contents(n - 1) : Len(x) = n - 1},
                                               b \in Bytes}

SmallContents == Contents(MaxContent) \ {<< >>}

LargeSize == 8193      \* a file just above the content-hash threshold

NumFiles == LET RECURSIVE Sum(_)
                Sum(S) == IF S = {} THEN 0
                          ELSE LET d == CHOOSE x \in S : TRUE
                               IN Cardinality(files[d]) + Sum(S \ {d})
            IN Sum(dirs)

\* a new file d/name with modification time m is written: content c when small
\* (its bytes are its size), otherwise a file above the content-hash threshold
WriteNewFile(d, name, m, c, large) ==
    /\ \A f \in files[d] : f.name # name
    /\ files' = [files EXCEPT ![d] = @ \cup
                   {IF large
                    THEN [name |-> name, mtime |-> m, size |-> LargeSize, content |-> c]
                    ELSE [name |-> name, mtime |-> m, size |-> Len(c), content |-> c]}]

\* byte i of the small file f of d becomes b, its modification time m
WriteByte(d, f, i, b, m) ==
    /\ f.size <= HashContentMax
    /\ b # f.content[i]
    /\ m >= f.mtime
    /\ files' = [files EXCEPT ![d] = (@ \ {f}) \cup
                   {[f EXCEPT !.content = [f.content EXCEPT ![i] = b], !.mtime = m]}]

\* touch: the modification time of f moves on to m
TouchFile(d, f, m) ==
    /\ m > f.mtime
    /\ files' = [files EXCEPT ![d] = (@ \ {f}) \cup {[f EXCEPT !.mtime = m]}]

\* rm d/f
Unlink(d, f) == files' = [files EXCEPT ![d] = @ \ {f}]

\* ------------------------------------------------------------------ traversal alone
InitOrder ==
    /\ dirs = {Root}
    /\ rootName \in DirNames
    /\ unreadable = {}
    /\ lsRev = FALSE
    /\ \E h \in BOOLEAN, ig \in SUBSET DirPatterns :
          settings = [DefaultSettings EXCEPT !.ignore_hidden = h, !.ignore_dirs = ig]
    /\ files = [d \in {Root} |-> {}]
    /\ digestFile = [d \in {Root} |-> NoArtifact]
    /\ hashFile = [d \in {Root} |-> NoArtifact]
    /\ pc = "idle"
    /\ order = << >>
    /\ idx = 0
    /\ digests = NoDigests
    /\ stats = NoStats
    /\ ret = NoReturn
    /\ hist = NoHist

\* a call of traverser.get_analysis_order(root_path)
CallGetAnalysisOrder ==
    /\ pc = "idle"
    /\ order' = GetAnalysisOrder
    /\ pc' = "ordered"
    /\ UNCHANGED <<treeVars, settings, fsVars, idx, digests, stats, ret, hist>>

NextOrder == Mkdir \/ Chmod \/ CallGetAnalysisOrder

SpecOrder == InitOrder /\ [][NextOrder]_vars

\* position of d in the sequence s, 0 when absent
\* C1: in the sequence get_analysis_order returns, every non-ignored immediate
\* subdirectory of a directory of the sequence stands at an earlier position.
C1_ChildrenBeforeParent ==
    pc = "ordered" =>
        \A i \in 1..Len(order) :
            \A c \in VisibleChildren(order[i]) :
                \E j \in 1..(i - 1) : order[j] = c

\* ------------------------------------------------------------------ traverser.py: files
\* _should_ignore_file: hidden name, ignore_files pattern, or extension outside a
\* non-empty include_extensions
ShouldIgnoreFile(name) ==
    \/ settings.ignore_hidden /\ StartsWithDot(name)
    \/ \E pat \in settings.ignore_files : FnMatch(name, pat)
    \/ settings.include_extensions # {} /\ Suffix(name) \notin settings.include_extensions

\* the suffixes of FileNames for which mimetypes.guess_type answers a text/ type
MimeTextSuffixes == { <<".", "p", "y">> }

\* the bytes of the model that are printable ASCII (32..126, tab, newline, return)
PrintableBytes == {"x", "y"}

NumPrintable(c) == Cardinality({i \in 1..Len(c) : c[i] \in PrintableBytes})

\* _is_text_file of the traverser: included extension, text MIME type, or a sample of
\* the content that is empty or more than 70% printable
TraverserIsTextFile(f) ==
    \/ Suffix(f.name) \in settings.include_extensions
    \/ Suffix(f.name) \in MimeTextSuffixes
    \/ Len(f.content) = 0
    \/ 10 * NumPrintable(f.content) > 7 * Len(f.content)

\* ------------------------------------------------------------------ fingerprints alone
\* A tree is set up (directories, files, stored fingerprints), then one change of
\* the environment is observed, after which fingerprints are stored again bottom-up
\* as save_digest does.
CalcHash(d) == CalculateDirectoryHash(d, digestFile, hashFile)

\* the observed change, with every fingerprint before it
Event(kind, d, name) ==
    [ev |-> kind, dir |-> d, name |-> name, stored |-> hashFile,
     before |-> [x \in dirs |-> CalcHash(x).h]]

NoEvent ==
    [ev |-> "none", dir |-> Root, name |-> << >>, stored |-> [x \in {Root} |-> NoArtifact],
     before |-> [x \in {Root} |-> << >>]]

InitHash ==
    /\ dirs = {Root}
    /\ rootName = <<"a">>
    /\ unreadable = {}
    /\ lsRev = FALSE
    /\ \E inc \in {{}, {<<".", "p", "y">>}} :
          settings = [DefaultSettings EXCEPT !.include_extensions = inc]
    /\ files = [d \in {Root} |-> {}]
    /\ digestFile = [d \in {Root} |-> NoArtifact]
    /\ hashFile = [d \in {Root} |-> NoArtifact]
    /\ pc = "idle"
    /\ order = << >>
    /\ idx = 0
    /\ digests = NoDigests
    /\ stats = NoStats
    /\ ret = NoReturn
    /\ hist = NoEvent

NoStoredHash == \A d \in dirs : hashFile[d].st = "absent"

HMkdir ==
    /\ MkdirUpTo(MaxHashDirs)
    /\ NoStoredHash

\* set-up: a file is created before any fingerprint is stored
HCreateFile ==
    /\ pc = "idle"
    /\ NoStoredHash
    /\ NumFiles < MaxFiles
    /\ \E d \in dirs, name \in FileNames, c \in SmallContents, large \in BOOLEAN :
         /\ large => c = <<"x">>
         /\ WriteNewFile(d, name, 1, c, large)
    /\ UNCHANGED <<treeVars, settings, digestFile, hashFile, pc, order, idx, digests, stats,
                   ret, hist>>

\* the observed change "a file is added"
HAddFile ==
    /\ pc = "idle"
    /\ NumFiles < MaxFiles
    /\ \E d \in dirs, name \in FileNames, c \in SmallContents, large \in BOOLEAN :
         /\ large => c = <<"x">>
         /\ WriteNewFile(d, name, 1, c, large)
         /\ hist' = Event("create", d, name)
    /\ pc' = "changed"
    /\ UNCHANGED <<treeVars, settings, digestFile, hashFile, order, idx, digests, stats, ret>>

HEditByte ==
    /\ pc = "idle"
    /\ \E d \in dirs :
         \E f \in files[d] :
           \E i \in 1..Len(f.content), b \in Bytes, m \in 1..MaxMtime :
             /\ WriteByte(d, f, i, b, m)
             /\ hist' = Event(IF m = f.mtime THEN "edit" ELSE "edit_touch", d, f.name)
    /\ pc' = "changed"
    /\ UNCHANGED <<treeVars, settings, digestFile, hashFile, order, idx, digests, stats, ret>>

HTouch ==
    /\ pc = "idle"
    /\ \E d \in dirs :
         \E f \in files[d] :
           \E m \in 1..MaxMtime :
             /\ TouchFile(d, f, m)
             /\ hist' = Event("touch", d, f.name)
    /\ pc' = "changed"
    /\ UNCHANGED <<treeVars, settings, digestFile, hashFile, order, idx, digests, stats, ret>>

HRemoveFile ==
    /\ pc = "idle"
    /\ \E d \in dirs :
         \E f \in files[d] :
             /\ Unlink(d, f)
             /\ hist' = Event("remove", d, f.name)
    /\ pc' = "changed"
    /\ UNCHANGED <<treeVars, settings, digestFile, hashFile, order, idx, digests, stats, ret>>

\* the next invocation runs with the other narrative mode (--narrative/--no-narrative)
HSetNarrative ==
    /\ pc = "idle"
    /\ settings' = [settings EXCEPT !.narrative_enabled = ~@]
    /\ hist' = Event("narrative", Root, << >>)
    /\ pc' = "changed"
    /\ UNCHANGED <<treeVars, fsVars, order, idx, digests, stats, ret>>

\* nothing changes in the tree, but the file system lists the entries in another order
HRelist ==
    /\ pc = "idle"
    /\ lsRev' = ~lsRev
    /\ hist' = Event("relist", Root, << >>)
    /\ pc' = "changed"
    /\ UNCHANGED <<dirs, rootName, unreadable, settings, fsVars, order, idx, digests,
                   stats, ret>>

\* the second half of save_digest in directory d: its fingerprint is stored; as in a
\* run, bottom-up: the subdirectories of d hold their current fingerprints
HStoreHash ==
    /\ \E d \in dirs :
         /\ hashFile[d] # [st |-> "ok", data |-> CalcHash(d).h]
         /\ \A c \in Children(d) : hashFile[c] = [st |-> "ok", data |-> CalcHash(c).h]
         /\ hashFile' = [hashFile EXCEPT ![d] = [st |-> "ok", data |-> CalcHash(d).h]]
    /\ UNCHANGED <<treeVars, settings, files, digestFile, pc, order, idx, digests, stats,
                   ret, hist>>

NextHash ==
    \/ HMkdir \/ HCreateFile \/ HAddFile \/ HEditByte \/ HTouch \/ HRemoveFile
    \/ HSetNarrative \/ HRelist \/ HStoreHash

SpecHash == InitHash /\ [][NextHash]_vars

Fingerprint(d) == CalcHash(d).h

\* the state right after the observed change: nothing was stored since
JustChanged == pc = "changed" /\ hashFile = hist.stored

\* the file the observed change was about (as it is now)
ChangedFile == CHOOSE f \in files[hist.dir] : f.name = hist.name

\* C9: on an unchanged tree (same files, same stored child fingerprints, same settings)
\* the fingerprint of every directory is the same whatever the order in which the
\* file system lists the entries.
C9_FingerprintDeterministic ==
    (JustChanged /\ hist.ev = "relist") =>
        \A d \in dirs : Fingerprint(d) = hist.before[d]

\* C10: the fingerprint of a directory changes when one byte of a small included text
\* file changes, when that file is touched, when a non-ignored file is added or
\* removed; a change of the narrative mode changes the fingerprint of every directory.
C10_FingerprintSensitive ==
    JustChanged =>
        /\ (/\ hist.ev \in {"edit", "edit_touch", "touch"}
            /\ ~ShouldIgnoreFile(hist.name)
            /\ ChangedFile.size <= HashContentMax
            /\ TraverserIsTextFile(ChangedFile))
           => Fingerprint(hist.dir) # hist.before[hist.dir]
        /\ (hist.ev \in {"create", "remove"} /\ ~ShouldIgnoreFile(hist.name))
           => Fingerprint(hist.dir) # hist.before[hist.dir]
        /\ hist.ev = "narrative"
           => \A d \in dirs : Fingerprint(d) # hist.before[d]

\* the directories from d up to the root, d included
RECURSIVE Ancestors(_)
Ancestors(d) == IF d = Root THEN {Root} ELSE {d} \cup Ancestors(Parent(d))

\* every directory holds its current fingerprint in its .digin_hash
AllStored == \A d \in dirs : hashFile[d] = [st |-> "ok", data |-> Fingerprint(d)]

\* the same, at the moment of the observed change
AllStoredBefore == \A d \in dirs : hist.stored[d] = [st |-> "ok", data |-> hist.before[d]]

\* the observed change rewrote bytes of a small included text file of a leaf directory
LeafContentChanged ==
    /\ pc = "changed"
    /\ hist.ev \in {"edit", "edit_touch"}
    /\ Children(hist.dir) = {}
    /\ ~ShouldIgnoreFile(hist.name)
    /\ TraverserIsTextFile(ChangedFile)

\* C11: after the content of a file of a leaf changed and the fingerprints were stored
\* again bottom-up, the fingerprint of the leaf and of every ancestor up to the root
\* differs from the one before the change; and a change to the files of one directory
\* leaves the fingerprint computed for every other directory as it was until a stored
\* child fingerprint changes (no file content of another directory is read).
C11_Propagation ==
    /\ (LeafContentChanged /\ AllStoredBefore /\ AllStored)
         => \A a \in Ancestors(hist.dir) : Fingerprint(a) # hist.before[a]
    /\ (JustChanged /\ hist.ev \in {"edit", "edit_touch", "touch", "create", "remove"})
         => \A a \in dirs \ {hist.dir} : Fingerprint(a) = hist.before[a]

\* ------------------------------------------------------------------ ignored directories
\* A tree is set up and fingerprints are stored; then the tree changes inside a
\* directory matched by the directory ignore rules (or such a directory appears), and
\* the leaves, the analysis order and the fingerprints are compared with those before.
MaxIgnoreDirs == 4

\* d is matched by the directory ignore rules, or lies under a directory that is
UnderIgnored(d) == \E k \in 0..Len(d) : ShouldIgnoreDirectory(SubSeq(d, 1, k))

\* the observed change, with what the traverser and the cache answered before it
IgnoreEvent(kind, d) ==
    [ev |-> kind, dir |-> d, leaves |-> FindLeafDirectories, order |-> GetAnalysisOrder,
     before |-> [x \in dirs |-> CalcHash(x).h]]

NoIgnoreEvent ==
    [ev |-> "none", dir |-> Root, leaves |-> << >>, order |-> << >>,
     before |-> [x \in {Root} |-> << >>]]

InitIgnore ==
    /\ dirs = {Root}
    /\ rootName \in DirNames
    /\ unreadable = {}
    /\ lsRev = FALSE
    /\ \E h \in BOOLEAN, ig \in SUBSET DirPatterns :
          settings = [DefaultSettings EXCEPT !.ignore_hidden = h, !.ignore_dirs = ig]
    /\ files = [d \in {Root} |-> {}]
    /\ digestFile = [d \in {Root} |-> NoArtifact]
    /\ hashFile = [d \in {Root} |-> NoArtifact]
    /\ pc = "idle"
    /\ order = << >>
    /\ idx = 0
    /\ digests = NoDigests
    /\ stats = NoStats
    /\ ret = NoReturn
    /\ hist = NoIgnoreEvent

IMkdir ==
    /\ MkdirUpTo(MaxIgnoreDirs)
    /\ NoStoredHash

\* set-up: save_digest stores the fingerprint of a directory the run visits, bottom-up
IStoreHash ==
    /\ pc = "idle"
    /\ \E d \in dirs :
         /\ ~UnderIgnored(d)
         /\ hashFile[d].st = "absent"
         /\ \A c \in VisibleChildren(d) : hashFile[c].st = "ok"
         /\ hashFile' = [hashFile EXCEPT ![d] = [st |-> "ok", data |-> CalcHash(d).h]]
    /\ UNCHANGED <<treeVars, settings, files, digestFile, pc, order, idx, digests, stats,
                   ret, hist>>

\* the observed change: a directory appears that is ignored or lies under an ignored one
IAddIgnoredDir ==
    /\ pc = "idle"
    /\ Cardinality(dirs) < MaxIgnoreDirs
    /\ \E parent \in dirs, n \in DirNames :
          /\ Len(parent) < MaxDepth
          /\ Append(parent, n) \notin dirs
          /\ dirs' = dirs \cup {Append(parent, n)}
          /\ files' = [d \in dirs' |-> IF d \in dirs THEN files[d] ELSE {}]
          /\ digestFile' = [d \in dirs' |-> IF d \in dirs THEN digestFile[d] ELSE NoArtifact]
          /\ hashFile' = [d \in dirs' |-> IF d \in dirs THEN hashFile[d] ELSE NoArtifact]
          /\ hist' = IgnoreEvent("mkdir", Append(parent, n))
          /\ \E k \in 0..Len(parent) : ShouldIgnoreDirectory(SubSeq(parent, 1, k))
             \/ (settings.ignore_hidden /\ StartsWithDot(n))
             \/ \E pat \in settings.ignore_dirs : FnMatch(n, pat)
    /\ pc' = "changed"
    /\ UNCHANGED <<rootName, unreadable, lsRev, settings, order, idx, digests, stats, ret>>

\* the observed change: a file appears in an ignored directory
IAddIgnoredFile ==
    /\ pc = "idle"
    /\ \E d \in dirs, name \in FileNames :
         /\ UnderIgnored(d)
         /\ WriteNewFile(d, name, 1, <<"x">>, FALSE)
         /\ hist' = IgnoreEvent("file", d)
    /\ pc' = "changed"
    /\ UNCHANGED <<treeVars, settings, digestFile, hashFile, order, idx, digests, stats, ret>>

\* the observed change: an ignored directory holds a .digin_hash (left by a run under
\* other ignore rules, or shipped with the directory)
IAddIgnoredHash ==
    /\ pc = "idle"
    /\ \E d \in dirs :
         /\ UnderIgnored(d)
         /\ hashFile[d].st = "absent"
         /\ hashFile' = [hashFile EXCEPT ![d] = [st |-> "ok", data |-> CalcHash(d).h]]
         /\ hist' = IgnoreEvent("hash", d)
    /\ pc' = "changed"
    /\ UNCHANGED <<treeVars, settings, files, digestFile, order, idx, digests, stats, ret>>

NextIgnore == IMkdir \/ IStoreHash \/ IAddIgnoredDir \/ IAddIgnoredFile \/ IAddIgnoredHash

SpecIgnore == InitIgnore /\ [][NextIgnore]_vars

\* C12: find_leaf_directories and get_analysis_order never return a directory that is
\* ignored or lies under an ignored one, and a change confined to ignored directories
\* (one appears, or its contents change) leaves the leaves, the analysis order and the
\* fingerprint of every non-ignored directory as they were.
C12_IgnoreTotal ==
    /\ \A d \in Range(FindLeafDirectories) \cup Range(GetAnalysisOrder) : ~UnderIgnored(d)
    /\ pc = "changed" =>
          /\ FindLeafDirectories = hist.leaves
          /\ GetAnalysisOrder = hist.order
          /\ \A d \in DOMAIN hist.before : ~UnderIgnored(d) => Fingerprint(d) = hist.before[d]

\* ------------------------------------------------------------------ the cache alone
\* The two entry points of CacheManager are called on a small tree; between the
\* calls the environment may change the file system (every such change is recorded).
MaxCacheDirs == 2
MaxDamage == 1
MaxSaves == 2
MaxClears == 1

\* the digests handed to save_digest for directory d
SampleDigests(d) ==
    { [path |-> d, kind |-> k, confidence |-> 80, children |-> << >>, analyzed_at |-> 1,
       wf |-> TRUE] : k \in {"lib", "service"} }

\* what was saved last, whether the file system changed since, what was looked up last
NoCall ==
    [last |-> "none", dir |-> Root, x |-> NoDigest, saveok |-> FALSE, changed |-> FALSE,
     getdir |-> Root, damaged |-> 0, saves |-> 0, clears |-> 0, recursive |-> FALSE]

InitCache ==
    /\ dirs = {Root}
    /\ rootName = <<"a">>
    /\ unreadable = {}
    /\ lsRev = FALSE
    /\ \E c \in BOOLEAN : settings = [DefaultSettings EXCEPT !.cache_enabled = c]
    /\ files = [d \in {Root} |-> {}]
    /\ digestFile = [d \in {Root} |-> NoArtifact]
    /\ hashFile = [d \in {Root} |-> NoArtifact]
    /\ pc = "idle"
    /\ order = << >>
    /\ idx = 0
    /\ digests = NoDigests
    /\ stats = NoStats
    /\ ret = NoReturn
    /\ hist = NoCall

NoArtifacts == \A d \in dirs : digestFile[d].st = "absent" /\ hashFile[d].st = "absent"

CMkdir ==
    /\ MkdirUpTo(MaxCacheDirs)
    /\ NoArtifacts

CCreateFile ==
    /\ NumFiles < MaxFiles
    /\ \E d \in dirs, name \in FileNames :
         WriteNewFile(d, name, 1, <<"x">>, FALSE)
    /\ hist' = [hist EXCEPT !.changed = TRUE]
    /\ UNCHANGED <<treeVars, settings, digestFile, hashFile, pc, order, idx, digests, stats,
                   ret>>

\* chmod a-r d
CChmod ==
    /\ Cardinality(unreadable) < MaxUnreadable
    /\ \E d \in dirs \ unreadable : unreadable' = unreadable \cup {d}
    /\ hist' = [hist EXCEPT !.changed = TRUE]
    /\ UNCHANGED <<dirs, rootName, lsRev, settings, fsVars, pc, order, idx, digests, stats,
                   ret>>

CRelist ==
    /\ lsRev' = ~lsRev
    /\ hist' = [hist EXCEPT !.changed = TRUE]
    /\ UNCHANGED <<dirs, rootName, unreadable, settings, fsVars, pc, order, idx, digests,
                   stats, ret>>

\* an artifact on disk loses its read permission, or its bytes are garbled (no longer
\* UTF-8 text / JSON)
Damage ==
    /\ hist.damaged < MaxDamage
    /\ \E d \in dirs, how \in {"unreadable", "corrupt"} :
         \/ /\ digestFile[d].st = "ok"
            /\ digestFile' = [digestFile EXCEPT ![d].st = how]
            /\ UNCHANGED hashFile
         \/ /\ hashFile[d].st = "ok"
            /\ hashFile' = [hashFile EXCEPT ![d].st = how]
            /\ UNCHANGED digestFile
    /\ hist' = [hist EXCEPT !.changed = TRUE, !.damaged = @ + 1]
    /\ UNCHANGED <<treeVars, settings, files, pc, order, idx, digests, stats, ret>>

\* cache_manager.save_digest(d, x)
CallSaveDigest ==
    /\ hist.saves < MaxSaves
    /\ \E d \in dirs :
         \E x \in SampleDigests(d) :
           LET r == SaveDigest(d, x, digestFile, hashFile)
           IN /\ digestFile' = r.df
              /\ hashFile' = r.hf
              /\ ret' = [kind |-> IF r.raised THEN "raise" ELSE "none", digest |-> NoDigest]
              /\ hist' = [hist EXCEPT !.last = "save", !.dir = d, !.x = x,
                                      !.saveok = ~r.raised, !.changed = FALSE,
                                      !.saves = @ + 1]
    /\ UNCHANGED <<treeVars, settings, files, pc, order, idx, digests, stats>>

\* cache_manager.get_cached_digest(d)
CallGetCachedDigest ==
    /\ hist.last # "get"
    /\ \E d \in dirs :
         /\ ret' = GetCachedDigest(d, digestFile, hashFile)
         /\ hist' = [hist EXCEPT !.last = "get", !.getdir = d]
    /\ UNCHANGED <<treeVars, settings, fsVars, pc, order, idx, digests, stats>>

\* cache_manager.clear_cache(d, recursive)
CallClearCache ==
    /\ hist.clears < MaxClears
    /\ \E d \in dirs, recursive \in BOOLEAN :
         \E r \in {ClearCache(d, recursive, digestFile, hashFile)} :
            /\ digestFile' = r.df
            /\ hashFile' = r.hf
            /\ ret' = NoReturn
            /\ hist' = [hist EXCEPT !.last = "clear", !.dir = d, !.recursive = recursive,
                                    !.saveok = FALSE, !.changed = FALSE,
                                    !.clears = @ + 1]
    /\ UNCHANGED <<treeVars, settings, files, pc, order, idx, digests, stats>>

NextCache ==
    \/ CMkdir \/ CCreateFile \/ CChmod \/ CRelist \/ Damage
    \/ CallSaveDigest \/ CallGetCachedDigest \/ CallClearCache

SpecCache == InitCache /\ [][NextCache]_vars

\* save_digest(d, x) returned, nothing changed since, and get_cached_digest(d) was called
RoundTrip ==
    /\ settings.cache_enabled
    /\ hist.last = "get"
    /\ hist.getdir = hist.dir
    /\ hist.saveok
    /\ ~hist.changed

C8_LookupNeverRaises ==
    (/\ hist.last = "get"
     /\ hist.getdir \notin unreadable
     /\ \/ digestFile[hist.getdir].st # "ok"
        \/ hashFile[hist.getdir].st # "ok"
        \/ Strip(hashFile[hist.getdir].data) # CalcHash(hist.getdir).h)
    => ret.kind = "miss"

\* the subtree of d: d and every directory below it
Subtree(d) == {c \in dirs : Len(c) >= Len(d) /\ SubSeq(c, 1, Len(d)) = d}

\* the directories the last clear_cache was asked to clear
ToClear == IF hist.recursive THEN Subtree(hist.dir) ELSE {hist.dir}

\* C14: a call clear_cache(d, recursive) leaves d - and with recursive every directory
\* of the subtree of d - with neither artifact, so that a lookup there is a miss; it
\* leaves the artifacts of every other directory and all files as they were; and when
\* the directories are already clear it changes nothing and raises nothing.
C14_ClearCache ==
    [][(hist'.clears = hist.clears + 1) =>
          /\ \A c \in ToClear' :
                /\ digestFile'[c].st = "absent" /\ hashFile'[c].st = "absent"
                /\ c \notin unreadable => GetCachedDigest(c, digestFile', hashFile') = Miss
          /\ \A c \in dirs \ ToClear' :
                digestFile'[c] = digestFile[c] /\ hashFile'[c] = hashFile[c]
          /\ files' = files
          /\ ret'.kind = "none"
          /\ (\A c \in ToClear' : digestFile[c].st = "absent" /\ hashFile[c].st = "absent")
                => (digestFile' = digestFile /\ hashFile' = hashFile)]_vars

\* ------------------------------------------------------------------ files hashed, files listed
\* One directory under varying file rules: a file appears, or save_digest writes the
\* artifacts, and the fingerprint is compared with the one before.
MaxMirrorFiles == 2

\* settings.get_max_file_size_bytes() for max_file_size = "1MB"
GetMaxFileSizeBytes == 1 * 1024 * 1024

\* the files the model creates here: a source file, a second one, a hidden one; of one
\* byte, above the content-hash threshold, above the maximum size
MirrorNames == FileNames \cup { <<".", "e">> }
FilePatterns == { <<"*", ".", "g", "o">> }
MirrorSizes == {1, LargeSize, GetMaxFileSizeBytes + 1}

\* collect_directory_info / _collect_file_info: f is in the file list of its directory
TraverserIncludes(f) ==
    /\ ~ShouldIgnoreFile(f.name)
    /\ f.size <= GetMaxFileSizeBytes

InitMirror ==
    /\ dirs = {Root}
    /\ rootName = <<"a">>
    /\ unreadable = {}
    /\ lsRev = FALSE
    /\ \E h \in BOOLEAN, ig \in SUBSET FilePatterns, inc \in {{}, {<<".", "p", "y">>}} :
          settings = [DefaultSettings EXCEPT !.ignore_hidden = h, !.ignore_files = ig,
                                             !.include_extensions = inc]
    /\ files = [d \in {Root} |-> {}]
    /\ digestFile = [d \in {Root} |-> NoArtifact]
    /\ hashFile = [d \in {Root} |-> NoArtifact]
    /\ pc = "idle"
    /\ order = << >>
    /\ idx = 0
    /\ digests = NoDigests
    /\ stats = NoStats
    /\ ret = NoReturn
    /\ hist = NoEvent

\* a file appears in the directory; the change is observed or part of the set-up
MAddFile ==
    /\ pc = "idle"
    /\ NumFiles < MaxMirrorFiles
    /\ \E name \in MirrorNames, size \in MirrorSizes, observed \in BOOLEAN :
         /\ \A f \in files[Root] : f.name # name
         /\ files' = [files EXCEPT ![Root] = @ \cup
                        {[name |-> name, mtime |-> 1, size |-> size, content |-> <<"x">>]}]
         /\ hist' = IF observed THEN Event("create", Root, name) ELSE hist
         /\ pc' = IF observed THEN "changed" ELSE "idle"
    /\ UNCHANGED <<treeVars, settings, digestFile, hashFile, order, idx, digests, stats, ret>>

\* cache_manager.save_digest(root, x) writes digest.json and .digin_hash
MSaveDigest ==
    /\ pc = "idle"
    /\ \E x \in SampleDigests(Root), observed \in BOOLEAN :
         \E r \in {SaveDigest(Root, x, digestFile, hashFile)} :
            /\ digestFile' = r.df
            /\ hashFile' = r.hf
            /\ digestFile' # digestFile \/ hashFile' # hashFile
            /\ hist' = IF observed THEN Event("save", Root, << >>) ELSE hist
            /\ pc' = IF observed THEN "changed" ELSE "idle"
    /\ UNCHANGED <<treeVars, settings, files, order, idx, digests, stats, ret>>

NextMirror == MAddFile \/ MSaveDigest

SpecMirror == InitMirror /\ [][NextMirror]_vars

\* C13: a file that appears in a directory changes the fingerprint of the directory
\* exactly when the traverser lists it (not ignored by pattern, not hidden when hidden
\* files are ignored, extension allowed, size within the maximum); and save_digest,
\* writing digest.json and .digin_hash, leaves the fingerprint as it was.
C13_HashMirrorsTraverser ==
    pc = "changed" =>
        /\ hist.ev = "create" =>
              ((Fingerprint(Root) # hist.before[Root]) <=> TraverserIncludes(ChangedFile))
        /\ hist.ev = "save" => Fingerprint(Root) = hist.before[Root]

\* ------------------------------------------------------------------ aggregator.py
\* how many of the digests in cds have kind k
KindCount(cds, k) == Cardinality({i \in 1..Len(cds) : cds[i].kind = k})

\* Counter.most_common(1): the most frequent kind, the first met among equals
MostCommonKind(cds) ==
    LET best == CHOOSE i \in 1..Len(cds) :
                  /\ \A j \in 1..Len(cds) :
                        KindCount(cds, cds[j].kind) <= KindCount(cds, cds[i].kind)
                  /\ \A j \in 1..(i - 1) :
                        KindCount(cds, cds[j].kind) < KindCount(cds, cds[i].kind)
    IN cds[best].kind

\* a faulty variant: a share of exactly 60% is not enough
DetermineAggregatedKindMut(cds) ==
    IF cds = << >> THEN "unknown"
    ELSE IF \A i \in 1..Len(cds) : cds[i].kind = cds[1].kind THEN cds[1].kind
    ELSE IF 10 * KindCount(cds, "service") > 6 * Len(cds) THEN "service"
    ELSE IF 10 * KindCount(cds, "lib") > 6 * Len(cds) THEN "lib"
    ELSE IF 10 * KindCount(cds, "test") > 6 * Len(cds) THEN "test"
    ELSE IF KindCount(cds, "service") > 0 /\ KindCount(cds, "lib") > 0 THEN "infra"
    ELSE MostCommonKind(cds)
\* SummaryAggregator._determine_aggregated_kind (count >= len * 0.6)
DetermineAggregatedKind(cds) ==
    IF cds = << >> THEN "unknown"
    ELSE IF \A i \in 1..Len(cds) : cds[i].kind = cds[1].kind THEN cds[1].kind
    ELSE IF 10 * KindCount(cds, "service") >= 6 * Len(cds) THEN "service"
    ELSE IF 10 * KindCount(cds, "lib") >= 6 * Len(cds) THEN "lib"
    ELSE IF 10 * KindCount(cds, "test") >= 6 * Len(cds) THEN "test"
    ELSE IF KindCount(cds, "service") > 0 /\ KindCount(cds, "lib") > 0 THEN "infra"
    ELSE MostCommonKind(cds)

RECURSIVE SumConf(_, _)
SumConf(cds, i) == IF i > Len(cds) THEN 0 ELSE cds[i].confidence + SumConf(cds, i + 1)

RECURSIVE SumSqConf(_, _)
SumSqConf(cds, i) ==
    IF i > Len(cds) THEN 0
    ELSE cds[i].confidence * cds[i].confidence + SumSqConf(cds, i + 1)

Min(a, b) == IF a <= b THEN a ELSE b
Max(a, b) == IF a >= b THEN a ELSE b

\* int(x) for the fraction num/den, den > 0: truncation towards zero
Trunc(num, den) == IF num >= 0 THEN num \div den ELSE 0 - ((0 - num) \div den)

\* a faulty variant: the result is not clamped
CalculateAggregateConfidenceMut(cds) ==
    IF cds = << >> THEN 30
    ELSE LET n == Len(cds)
             sum == SumConf(cds, 1)
             penalty == IF n > 1 THEN Min(n * SumSqConf(cds, 1) - sum * sum, 2000 * n * n)
                        ELSE 0
             bonus == Min(n * 2, 10)
             num == 100 * n * sum - penalty + bonus * 100 * n * n
         IN Trunc(num, 100 * n * n)
\* SummaryAggregator._calculate_aggregate_confidence, in exact arithmetic over the
\* common denominator 100 * n * n: mean, minus min(variance / 100, 20) when there is
\* more than one child, plus min(2 * n, 10), truncated and clamped to 0..100
CalculateAggregateConfidence(cds) ==
    IF cds = << >> THEN 30
    ELSE LET n == Len(cds)
             sum == SumConf(cds, 1)
             penalty == IF n > 1 THEN Min(n * SumSqConf(cds, 1) - sum * sum, 2000 * n * n)
                        ELSE 0
             bonus == Min(n * 2, 10)
             num == 100 * n * sum - penalty + bonus * 100 * n * n
         IN Max(0, Min(100, Trunc(num, 100 * n * n)))

\* SummaryAggregator._create_evidence: the children whose digests were merged
EvidenceChildren(cds) == [i \in 1..Len(cds) |-> cds[i].path]

\* SummaryAggregator.aggregate_summaries(d, cds, info) at time now; a child digest with
\* a member of an unexpected type makes a merge step raise
AggregateSummaries(d, cds, now) ==
    IF \E i \in 1..Len(cds) : ~cds[i].wf THEN [raised |-> TRUE, digest |-> NoDigest]
    ELSE [raised |-> FALSE,
          digest |-> [path |-> d, kind |-> DetermineAggregatedKind(cds),
                      confidence |-> CalculateAggregateConfidence(cds),
                      children |-> EvidenceChildren(cds), analyzed_at |-> now,
                      wf |-> TRUE]]

\* ------------------------------------------------------------------ the aggregator alone
\* A list of child digests is built, one child after the other, and handed to
\* aggregate_summaries.
MaxChildren == 5

\* the children: every kind the rule names, two it does not, confidences over 0..100
\* (the kind rule reads only the kinds, the confidence only the confidences)
ChildSamples ==
    { [kind |-> "service", confidence |-> 100], [kind |-> "lib", confidence |-> 0],
      [kind |-> "test", confidence |-> 50], [kind |-> "docs", confidence |-> 80],
      [kind |-> "unknown", confidence |-> 20] }

InitAggregate ==
    /\ dirs = {Root}
    /\ rootName = <<"a">>
    /\ unreadable = {}
    /\ lsRev = FALSE
    /\ settings = DefaultSettings
    /\ files = [d \in {Root} |-> {}]
    /\ digestFile = [d \in {Root} |-> NoArtifact]
    /\ hashFile = [d \in {Root} |-> NoArtifact]
    /\ pc = "idle"
    /\ order = << >>
    /\ idx = 0
    /\ digests = NoDigests
    /\ stats = NoStats
    /\ ret = NoReturn
    /\ hist = [cds |-> << >>]

\* one more child digest is appended to child_digests
AddChild ==
    /\ pc = "idle"
    /\ Len(hist.cds) < MaxChildren
    /\ \E t \in ChildSamples :
         hist' = [cds |-> Append(hist.cds,
                     [path |-> << <<"a">> >>, kind |-> t.kind, confidence |-> t.confidence,
                      children |-> << >>, analyzed_at |-> 1, wf |-> TRUE])]
    /\ UNCHANGED <<treeVars, settings, fsVars, pc, order, idx, digests, stats, ret>>

\* aggregator.aggregate_summaries(root, child_digests, info)
CallAggregate ==
    /\ pc = "idle"
    /\ \E r \in {AggregateSummaries(Root, hist.cds, 1)} :
         ret' = [kind |-> IF r.raised THEN "raise" ELSE "digest", digest |-> r.digest]
    /\ pc' = "aggregated"
    /\ UNCHANGED <<treeVars, settings, fsVars, order, idx, digests, stats, hist>>

NextAggregate == AddChild \/ CallAggregate

SpecAggregate == InitAggregate /\ [][NextAggregate]_vars

\* the kinds of the children handed to the aggregator, in order
ChildKinds == [i \in 1..Len(hist.cds) |-> hist.cds[i].kind]

\* C17: the kind of the aggregate is unknown without children; the common kind when
\* all children agree; otherwise service, lib or test, in this order, when at least 60%
\* of the children have it; otherwise infra when service and lib both occur; otherwise
\* a most frequent kind.  (service, service, lib) gives service, (service, lib) infra.
C17_AggregatedKind ==
    pc = "aggregated" =>
        LET n == Len(hist.cds)
            cnt(k) == Cardinality({i \in 1..n : ChildKinds[i] = k})
            share(k) == 100 * cnt(k) >= 60 * n
            kind == ret.digest.kind
        IN /\ IF n = 0 THEN kind = "unknown"
              ELSE IF \E k \in Range(ChildKinds) : cnt(k) = n THEN cnt(kind) = n
              ELSE IF share("service") THEN kind = "service"
              ELSE IF share("lib") THEN kind = "lib"
              ELSE IF share("test") THEN kind = "test"
              ELSE IF cnt("service") > 0 /\ cnt("lib") > 0 THEN kind = "infra"
              ELSE \A k \in Range(ChildKinds) : cnt(k) <= cnt(kind)
           /\ ChildKinds = <<"service", "service", "lib">> => kind = "service"
           /\ ChildKinds = <<"service", "lib">> => kind = "infra"

\* C17 witness: three of five children are service - exactly 60% - and the aggregate
\* is a service
C17_Witness ==
    /\ pc = "aggregated"
    /\ ChildKinds = <<"service", "lib", "service", "test", "service">>
    /\ ret.digest.kind = "service"

\* C18: the aggregated confidence is an integer from 0 to 100 for every list of child
\* confidences from 0 to 100, the empty list included; for children of one common
\* confidence c (no variance) it is c plus 2 per child, at most 10, cut at 100.
C18_ConfidenceBounds ==
    pc = "aggregated" =>
        /\ ret.digest.confidence \in 0..100
        /\ (hist.cds # << >> /\ \A i \in 1..Len(hist.cds) :
                                    hist.cds[i].confidence = hist.cds[1].confidence)
             => ret.digest.confidence
                  = Min(100, hist.cds[1].confidence + Min(2 * Len(hist.cds), 10))

\* C18 witness: five children of confidence 100, where mean plus bonus passes 100
C18_Witness ==
    /\ pc = "aggregated"
    /\ Len(hist.cds) = MaxChildren
    /\ \A i \in 1..Len(hist.cds) : hist.cds[i].confidence = 100
    /\ ret.digest.confidence = 100

\* ------------------------------------------------------------------ the sections of an aggregate
\* The lists and texts of the digest aggregate_summaries returns.  A text is the
\* sequence of its pieces, the fixed pieces of the f-string and the values put between
\* them; it is the empty string when every piece is.
MaxSectionChildren == 3

Occurrences(s, x) == Cardinality({i \in 1..Len(s) : s[i] = x})
FirstIndex(s, x) == CHOOSE i \in 1..Len(s) : s[i] = x /\ \A j \in 1..(i - 1) : s[j] # x

\* Counter(s).most_common(): the distinct elements by falling count, equal counts in
\* the order of first occurrence
RECURSIVE MostCommonOf(_, _)
MostCommonOf(s, rest) ==
    IF rest = {} THEN << >>
    ELSE LET x == CHOOSE x \in rest :
                     \A y \in rest \ {x} :
                        \/ Occurrences(s, x) > Occurrences(s, y)
                        \/ /\ Occurrences(s, x) = Occurrences(s, y)
                           /\ FirstIndex(s, x) < FirstIndex(s, y)
         IN <<x>> \o MostCommonOf(s, rest \ {x})
MostCommon(s) == MostCommonOf(s, Range(s))

\* the risks (the capabilities) of all children, one list after the other
RECURSIVE PoolOf(_, _, _)
PoolOf(cds, member, i) ==
    IF i > Len(cds) THEN << >> ELSE cds[i][member] \o PoolOf(cds, member, i + 1)

\* the loop of _merge_risks over most_common()
RECURSIVE MergeRisksLoop(_, _, _, _)
MergeRisksLoop(mc, i, pool, merged) ==
    IF i > Len(mc) THEN merged
    ELSE LET m == IF Occurrences(pool, mc[i]) > 1 \/ Len(merged) < 3
                  THEN Append(merged, mc[i]) ELSE merged
         IN IF Len(m) >= 6 THEN m ELSE MergeRisksLoop(mc, i + 1, pool, m)

\* SummaryAggregator._merge_risks
MergeRisks(cds) ==
    LET pool == PoolOf(cds, "risks", 1) IN MergeRisksLoop(MostCommon(pool), 1, pool, << >>)

\* SummaryAggregator._merge_capabilities for capabilities of one word each: a
\* capability is kept unless its word was seen, eight at most
MergeCapabilities(cds) ==
    LET mc == MostCommon(PoolOf(cds, "capabilities", 1))
    IN SubSeq(mc, 1, Min(8, Len(mc)))

\* ' | '.join(names)
RECURSIVE JoinWith(_, _)
JoinWith(names, sep) ==
    IF names = << >> THEN << >>
    ELSE IF Len(names) = 1 THEN <<names[1]>>
    ELSE <<names[1], sep>> \o JoinWith(Tail(names), sep)

FirstN(s, n) == SubSeq(s, 1, Min(n, Len(s)))

\* SummaryAggregator._get_domain_description: key words looked up in the capabilities
GetDomainDescription(cds) ==
    LET caps == Range(PoolOf(cds, "capabilities", 1))
    IN IF caps \cap {"web", "http", "api", "server", "service"} # {} THEN "Web"
       ELSE IF caps \cap {"data", "database", "storage"} # {} THEN "data processing"
       ELSE IF caps \cap {"ui", "frontend"} # {} THEN "user interface"
       ELSE IF caps \cap {"test"} # {} THEN "test"
       ELSE "function"

\* SummaryAggregator._get_top_capability_summary
GetTopCapabilitySummary(cds) ==
    LET caps == MergeCapabilities(cds)
    IN IF caps = << >> THEN <<"provides several functions">>
       ELSE IF Len(caps) = 1 THEN <<"focused on ", caps[1]>>
       ELSE IF Len(caps) <= 3 THEN <<"mainly provides ">> \o JoinWith(caps, " | ")
       ELSE <<"provides ", caps[1], " and more">>

\* SummaryAggregator._generate_conversational_summary
GenerateConversationalSummary(name, cds) ==
    IF cds = << >> THEN <<"this is the directory ", name, ", no modules found yet">>
    ELSE LET key(c) == IF c.capabilities # << >> THEN <<c.name, "(", c.capabilities[1], ")">>
                       ELSE <<c.name>>
             keys == [i \in 1..Len(cds) |-> key(cds[i])]
             RECURSIVE flat(_)
             flat(i) == IF i > Min(3, Len(keys)) THEN << >>
                        ELSE keys[i] \o (IF i < Min(3, Len(keys)) THEN <<" | ">> ELSE << >>)
                                     \o flat(i + 1)
         IN <<"the directory ", name, " holds ", GetDomainDescription(cds),
              " functions, main modules: ">> \o flat(1)
              \o <<IF Len(cds) > 3 THEN ", and more modules" ELSE ", modules in all">>

\* SummaryAggregator._generate_handshake
GenerateHandshake(name, cds) ==
    IF cds = << >> THEN <<"welcome to ", name, "!">>
    ELSE LET k == MostCommonKind(cds)
             intro == IF k \in {"service", "lib", "test", "ui", "config", "infra"}
                      THEN "this is the area of " \o k ELSE "this is an important area"
         IN <<intro, ", ">> \o GetTopCapabilitySummary(cds) \o <<", modules to explore">>

\* sorted(child_digests, key = confidence + 10 * len(capabilities), reverse = True):
\* the indices of the children by falling key, equal keys in list order
RECURSIVE ByImportance(_, _)
ByImportance(cds, rest) ==
    IF rest = {} THEN << >>
    ELSE LET key(i) == cds[i].confidence + 10 * Len(cds[i].capabilities)
             b == CHOOSE i \in rest :
                     \A j \in rest \ {i} : key(i) > key(j) \/ (key(i) = key(j) /\ i < j)
         IN <<b>> \o ByImportance(cds, rest \ {b})

\* a faulty variant: without children no next step is suggested
GenerateNextStepsMut(name, cds) ==
    IF cds = << >> THEN <<"">>
    ELSE LET by == ByImportance(cds, 1..Len(cds))
             top == [i \in 1..Min(2, Len(by)) |-> cds[by[i]].name]
         IN IF Len(cds) = 1 THEN <<"look at ", top[1], " first">>
            ELSE IF Len(cds) <= 3 THEN <<"look in order at: ">> \o JoinWith(top, " then ")
            ELSE <<"look first at ">> \o JoinWith(top, " and ") \o <<", the key entries">>
\* SummaryAggregator._generate_next_steps
GenerateNextSteps(name, cds) ==
    IF cds = << >> THEN <<"look at the files of the directory first">>
    ELSE LET by == ByImportance(cds, 1..Len(cds))
             top == [i \in 1..Min(2, Len(by)) |-> cds[by[i]].name]
         IN IF Len(cds) = 1 THEN <<"look at ", top[1], " first">>
            ELSE IF Len(cds) <= 3 THEN <<"look in order at: ">> \o JoinWith(top, " then ")
            ELSE <<"look first at ">> \o JoinWith(top, " and ") \o <<", the key entries">>

\* SummaryAggregator._generate_narrative_fields
GenerateNarrativeFields(name, cds) ==
    [summary |-> GenerateConversationalSummary(name, cds),
     handshake |-> GenerateHandshake(name, cds),
     next_steps |-> GenerateNextSteps(name, cds)]

\* a value of the digest with its Python type
Str(pieces) == [t |-> "str", v |-> pieces]
List(items) == [t |-> "list", v |-> items]
Dict(members) == [t |-> "dict", v |-> members]

\* the test of _clean_empty_fields: an empty list, an empty dict, None or ""
IsEmptyField(x) ==
    \/ x.t = "list" /\ x.v = << >>
    \/ x.t = "dict" /\ DOMAIN x.v = {}
    \/ x.t = "str" /\ \A i \in 1..Len(x.v) : x.v[i] = ""

\* SummaryAggregator._clean_empty_fields: the members of the digest that are not empty
CleanEmptyFields(digest) ==
    [k \in {k \in DOMAIN digest : ~IsEmptyField(digest[k])} |-> digest[k]]

\* aggregate_summaries(directory, child_digests), the members this section is about:
\* name, capabilities, risks and, when enabled, narrative
AggregateSections(name, cds, st) ==
    LET base == [k \in {"name", "capabilities", "risks"} |->
                   IF k = "name" THEN Str(<<name>>)
                   ELSE IF k = "capabilities" THEN List(MergeCapabilities(cds))
                   ELSE List(MergeRisks(cds))]
        full == IF st.narrative_enabled
                THEN [k \in DOMAIN base \cup {"narrative"} |->
                        IF k = "narrative"
                        THEN LET n == GenerateNarrativeFields(name, cds)
                             IN Dict([f \in {"summary", "handshake", "next_steps"} |->
                                        Str(n[f])])
                        ELSE base[k]]
                ELSE base
    IN CleanEmptyFields(full)

\* the children: with and without a name, capabilities and risks; one names seven
\* risks, one a risk twice
SevenRisks == <<"r1", "r2", "r3", "r4", "r5", "r6", "r7">>
SectionSamples ==
    { [name |-> "auth", kind |-> "service", confidence |-> 85,
       capabilities |-> <<"login", "api">>, risks |-> SevenRisks],
      [name |-> "", kind |-> "lib", confidence |-> 0,
       capabilities |-> << >>, risks |-> << >>],
      [name |-> "db", kind |-> "lib", confidence |-> 60,
       capabilities |-> <<"storage">>, risks |-> <<"r8", "r2", "r1">>],
      [name |-> "ui", kind |-> "ui", confidence |-> 85,
       capabilities |-> <<"login">>, risks |-> <<"r9", "r9">>],
      [name |-> "t", kind |-> "test", confidence |-> 50,
       capabilities |-> <<"test">>, risks |-> <<"r9", "r8", "r10", "r11">>] }

\* directory.name: a name, or none (Path("/").name)
SectionNames == {"proj", ""}

InitSections ==
    /\ dirs = {Root}
    /\ rootName = <<"a">>
    /\ unreadable = {}
    /\ lsRev = FALSE
    /\ \E n \in BOOLEAN : settings = [DefaultSettings EXCEPT !.narrative_enabled = n]
    /\ files = [d \in {Root} |-> {}]
    /\ digestFile = [d \in {Root} |-> NoArtifact]
    /\ hashFile = [d \in {Root} |-> NoArtifact]
    /\ pc = "idle"
    /\ order = << >>
    /\ idx = 0
    /\ digests = NoDigests
    /\ stats = NoStats
    /\ ret = NoReturn
    /\ hist = [cds |-> << >>]

\* one more child digest is appended to child_digests
SAddChild ==
    /\ pc = "idle"
    /\ Len(hist.cds) < MaxSectionChildren
    /\ \E t \in SectionSamples : hist' = [cds |-> Append(hist.cds, t)]
    /\ UNCHANGED <<treeVars, settings, fsVars, pc, order, idx, digests, stats, ret>>

\* aggregator.aggregate_summaries(directory, child_digests)
CallAggregateSections ==
    /\ pc = "idle"
    /\ \E name \in SectionNames :
         ret' = [kind |-> "digest", digest |-> AggregateSections(name, hist.cds, settings)]
    /\ pc' = "sections"
    /\ UNCHANGED <<treeVars, settings, fsVars, order, idx, digests, stats, hist>>

NextSections == SAddChild \/ CallAggregateSections

SpecSections == InitSections /\ [][NextSections]_vars

\* C21: the digest of aggregate_summaries has a narrative member exactly when narrative
\* mode is enabled in the settings, and then the narrative has exactly the members
\* summary, handshake and next_steps, none of them empty.
C21_NarrativeWhenEnabled ==
    pc = "sections" =>
        /\ ("narrative" \in DOMAIN ret.digest) <=> settings.narrative_enabled
        /\ "narrative" \in DOMAIN ret.digest =>
              /\ DOMAIN ret.digest["narrative"].v = {"summary", "handshake", "next_steps"}
              /\ \A f \in {"summary", "handshake", "next_steps"} :
                    ~IsEmptyField(ret.digest["narrative"].v[f])

\* C21 witness: narrative mode is on and a directory without a name and without
\* children, whose name, capabilities and risks are dropped as empty, has its narrative
C21_Witness ==
    /\ pc = "sections"
    /\ settings.narrative_enabled
    /\ hist.cds = << >>
    /\ "name" \notin DOMAIN ret.digest
    /\ "narrative" \in DOMAIN ret.digest

\* how many children mention the risk
MentionedBy(r) == Cardinality({i \in 1..Len(hist.cds) : r \in Range(hist.cds[i].risks)})

\* C30: the aggregated risk list is in falling frequency, holds every risk mentioned
\* by at least 2 children, holds a risk mentioned by a single child only among its
\* first 3 entries, has no duplicate and at most 6 entries.
C30_RiskList ==
    pc = "sections" =>
        LET pool == PoolOf(hist.cds, "risks", 1)
            rs == IF "risks" \in DOMAIN ret.digest THEN ret.digest["risks"].v ELSE << >>
        IN /\ \A i, j \in 1..Len(rs) :
                 i < j => rs[i] # rs[j] /\ Occurrences(pool, rs[i]) >= Occurrences(pool, rs[j])
           /\ \A r \in Range(pool) : MentionedBy(r) >= 2 => r \in Range(rs)
           /\ \A i \in 1..Len(rs) : MentionedBy(rs[i]) < 2 => i <= 3
           /\ Len(rs) <= 6

\* ------------------------------------------------------------------ analyzer.py
MaxRunDirs == 3
MaxRuns == 2

\* what the external analysis of a leaf may answer: a digest, a JSON object with a
\* member of an unexpected type, or nothing (failure, time-out, unparsable answer)
AIAnswers == {"service", "untyped", "none"}

\* CodebaseAnalyzer._analyze_leaf_directory: the digest made of the answer
AnalyzeLeafDirectory(d, answer, now) ==
    IF answer = "none" THEN [got |-> FALSE, digest |-> NoDigest]
    ELSE [got |-> TRUE,
          digest |-> [path |-> d, kind |-> "service", confidence |-> 80, children |-> << >>,
                      analyzed_at |-> now, wf |-> answer # "untyped"]]

\* CodebaseAnalyzer._analyze_parent_directory: an exception of the aggregator is caught
AnalyzeParentDirectory(d, cds, now) ==
    LET r == AggregateSummaries(d, cds, now)
    IN [got |-> ~r.raised, digest |-> r.digest]

\* a faulty variant: the loop over the subdirectories stops at the first digest found
GetChildDigestsMut(d, ds) ==
    IF d \in unreadable THEN << >>
    ELSE LET has(c) == ~ShouldIgnoreDirectory(c) /\ c \in DOMAIN ds
             cs == SelectSeq(ListDirs(d), has)
         IN [i \in 1..Min(1, Len(cs)) |-> ds[cs[i]]]
\* CodebaseAnalyzer._get_child_digests: the completed digests of the non-ignored
\* subdirectories of d, in listing order; none when d cannot be listed
GetChildDigests(d, ds) ==
    IF d \in unreadable THEN << >>
    ELSE LET has(c) == ~ShouldIgnoreDirectory(c) /\ c \in DOMAIN ds
             cs == SelectSeq(ListDirs(d), has)
         IN [i \in 1..Len(cs) |-> ds[cs[i]]]

\* _analyze_directory, the cache check: a lookup when caching is enabled
LookupCache(d) ==
    IF settings.cache_enabled THEN GetCachedDigest(d, digestFile, hashFile) ELSE Miss

\* _analyze_directory, the analysis: a directory without child digests is a leaf
AnalyzeMiss(d, cds, answer, now) ==
    IF cds = << >> THEN AnalyzeLeafDirectory(d, answer, now)
    ELSE AnalyzeParentDirectory(d, cds, now)

\* _analyze_directory, the save: only a digest is saved, only when caching is enabled
SaveIfAny(d, a) ==
    IF a.got /\ settings.cache_enabled THEN SaveDigest(d, a.digest, digestFile, hashFile)
    ELSE [raised |-> FALSE, df |-> digestFile, hf |-> hashFile]

\* CodebaseAnalyzer._analyze_directory(d, root, ds), put together from its steps: look
\* is the answer of the cache, fault says that collect_directory_info raises (an OSError
\* other than PermissionError), cds are the child digests, a the analysis, sv the save.
\* exc: an exception leaves the method.
AnalyzeDirectory(look, fault, cds, a, sv) ==
    LET nothing == [exc |-> FALSE, got |-> FALSE, digest |-> NoDigest, df |-> digestFile,
                    hf |-> hashFile, hits |-> 0, misses |-> 0, ai_calls |-> 0,
                    attempts |-> 0, inputs |-> << >>]
    IN IF look.kind = "raise" THEN [nothing EXCEPT !.exc = TRUE]
       ELSE IF look.kind = "hit"
       THEN [nothing EXCEPT !.got = TRUE, !.digest = look.digest, !.hits = 1]
       ELSE IF fault THEN [nothing EXCEPT !.exc = TRUE, !.misses = 1]
       ELSE [exc |-> sv.raised, got |-> a.got /\ ~sv.raised, digest |-> a.digest,
             df |-> sv.df, hf |-> sv.hf, hits |-> 0, misses |-> 1,
             ai_calls |-> IF cds = << >> THEN 1 ELSE 0, attempts |-> 1,
             inputs |-> EvidenceChildren(cds)]

\* a faulty variant: an entry is recorded whatever the outcome
RecordDigestMut(ds, d, r) ==
    [x \in DOMAIN ds \cup {d} |-> IF x = d THEN r.digest ELSE ds[x]]
\* the loop body of analyze: the digest is recorded when there is one
RecordDigest(ds, d, r) ==
    IF r.got /\ ~r.exc
    THEN [x \in DOMAIN ds \cup {d} |-> IF x = d THEN r.digest ELSE ds[x]]
    ELSE ds

\* a faulty variant: the empty result carries the confidence of an empty aggregation
CreateEmptyResultMut(now) ==
    [path |-> Root, kind |-> "unknown", confidence |-> 30, children |-> << >>,
     analyzed_at |-> now, wf |-> TRUE]
\* CodebaseAnalyzer._create_empty_result
CreateEmptyResult(now) ==
    [path |-> Root, kind |-> "unknown", confidence |-> 0, children |-> << >>,
     analyzed_at |-> now, wf |-> TRUE]

\* a faulty variant: the analysis order is computed before the capability check
RunStartMut(avail) ==
    IF ~avail
    THEN [pc |-> "raised", order |-> GetAnalysisOrder,
          ret |-> [kind |-> "AnalysisError", digest |-> NoDigest]]
    ELSE [pc |-> "running", order |-> GetAnalysisOrder, ret |-> NoReturn]
\* the first steps of analyze: the capability check, then the analysis order
RunStart(avail) ==
    IF ~avail
    THEN [pc |-> "raised", order |-> << >>,
          ret |-> [kind |-> "AnalysisError", digest |-> NoDigest]]
    ELSE [pc |-> "running", order |-> GetAnalysisOrder, ret |-> NoReturn]

\* the points of _analyze_directory at which a user interrupt may arrive
InterruptStages == {"lookup", "analysis", "save", "saved"}

\* a faulty variant: the interrupt is caught with the other exceptions and wrapped
InterruptedAtMut(stage, d, look, cds, a, sv) ==
    LET miss == look.kind = "miss"
        saving == miss /\ a.got /\ settings.cache_enabled
        calls == IF cds = << >> THEN 1 ELSE 0
    IN [possible |-> CASE stage = "lookup" -> TRUE
                       [] stage = "analysis" -> miss
                       [] stage = "save" -> saving /\ digestFile[d].st # "unreadable"
                       [] OTHER -> saving /\ ~sv.raised,
        df |-> CASE stage = "save" ->
                      [digestFile EXCEPT ![d] = [st |-> "ok", data |-> JsonDump(a.digest)]]
                 [] stage = "saved" -> sv.df
                 [] OTHER -> digestFile,
        hf |-> IF stage = "saved" THEN sv.hf ELSE hashFile,
        misses |-> IF stage = "lookup" THEN 0 ELSE 1,
        ai_calls |-> IF stage = "lookup" THEN 0 ELSE calls,
        ret |-> [kind |-> "AnalysisError", digest |-> NoDigest]]
\* analyze when KeyboardInterrupt is raised inside _analyze_directory(d): no handler
\* below analyze catches it, analyze re-raises it.  Up to the stage reached: nothing
\* done yet; the miss counted and the analysis under way; save_digest between its two
\* writes; save_digest done and the digest not yet recorded.
InterruptedAt(stage, d, look, cds, a, sv) ==
    LET miss == look.kind = "miss"
        saving == miss /\ a.got /\ settings.cache_enabled
        calls == IF cds = << >> THEN 1 ELSE 0
    IN [possible |-> CASE stage = "lookup" -> TRUE
                       [] stage = "analysis" -> miss
                       [] stage = "save" -> saving /\ digestFile[d].st # "unreadable"
                       [] OTHER -> saving /\ ~sv.raised,
        df |-> CASE stage = "save" ->
                      [digestFile EXCEPT ![d] = [st |-> "ok", data |-> JsonDump(a.digest)]]
                 [] stage = "saved" -> sv.df
                 [] OTHER -> digestFile,
        hf |-> IF stage = "saved" THEN sv.hf ELSE hashFile,
        misses |-> IF stage = "lookup" THEN 0 ELSE 1,
        ai_calls |-> IF stage = "lookup" THEN 0 ELSE calls,
        ret |-> [kind |-> "KeyboardInterrupt", digest |-> NoDigest]]

\* a faulty variant: only the leaves are reported as the analysis order
DryRunMut(fault) ==
    IF fault THEN Raised
    ELSE [kind |-> "dry_run", digest |-> NoDigest,
          analysis_order |-> FindLeafDirectories,
          total_directories |-> Len(GetAnalysisOrder),
          leaf_directories |-> Len(FindLeafDirectories),
          parent_directories |-> Len(GetAnalysisOrder) - Len(FindLeafDirectories)]
\* CodebaseAnalyzer.dry_run: what the call returns; fault says that
\* collect_directory_info raises while the files are counted
DryRun(fault) ==
    IF fault THEN Raised
    ELSE [kind |-> "dry_run", digest |-> NoDigest,
          analysis_order |-> GetAnalysisOrder,
          total_directories |-> Len(GetAnalysisOrder),
          leaf_directories |-> Len(FindLeafDirectories),
          parent_directories |-> Len(GetAnalysisOrder) - Len(FindLeafDirectories)]

\* ------------------------------------------------------------------ runs
\* what is observed of a run: whether the external analysis was available, the outcome
\* per directory ("hit", "ok": miss then digest, "failed": miss without digest, "error":
\* an exception), the analysis and aggregation attempts, the children handed to the
\* aggregator, the artifacts and statistics at the start, and the previous run
NoRun ==
    [run |-> 0, avail |-> TRUE, changed |-> FALSE,
     outcome |-> [d \in {Root} |-> "pending"],
     attempts |-> [d \in {Root} |-> 0],
     inputs |-> [d \in {Root} |-> << >>],
     started |-> [df |-> [d \in {Root} |-> NoArtifact], hf |-> [d \in {Root} |-> NoArtifact],
                  stats |-> NoStats],
     prev |-> [done |-> FALSE, order |-> << >>, ret |-> NoReturn,
               outcome |-> [d \in {Root} |-> "pending"]]]

InitRun ==
    /\ dirs = {Root}
    /\ rootName = <<"a">>
    /\ unreadable = {}
    /\ lsRev = FALSE
    /\ \E c \in BOOLEAN : settings = [DefaultSettings EXCEPT !.cache_enabled = c]
    /\ files = [d \in {Root} |-> {}]
    /\ digestFile = [d \in {Root} |-> NoArtifact]
    /\ hashFile = [d \in {Root} |-> NoArtifact]
    /\ pc = "idle"
    /\ order = << >>
    /\ idx = 0
    /\ digests = NoDigests
    /\ stats = NoStats
    /\ ret = NoReturn
    /\ hist = NoRun

RMkdir ==
    /\ MkdirUpTo(MaxRunDirs)
    /\ hist.run = 0
    /\ ~hist.changed

\* between two runs the environment changes at most one thing
RChmod ==
    /\ pc = "idle"
    /\ ~hist.changed
    /\ Cardinality(unreadable) < MaxUnreadable
    /\ \E d \in dirs \ unreadable : unreadable' = unreadable \cup {d}
    /\ hist' = [hist EXCEPT !.changed = TRUE]
    /\ UNCHANGED <<dirs, rootName, lsRev, settings, fsVars, pc, order, idx, digests, stats,
                   ret>>

RRelist ==
    /\ pc = "idle"
    /\ ~hist.changed
    /\ hist.run > 0
    /\ lsRev' = ~lsRev
    /\ hist' = [hist EXCEPT !.changed = TRUE]
    /\ UNCHANGED <<dirs, rootName, unreadable, settings, fsVars, pc, order, idx, digests,
                   stats, ret>>

RDamage ==
    /\ pc = "idle"
    /\ ~hist.changed
    /\ \E d \in dirs, how \in {"unreadable", "corrupt"} :
         \/ /\ digestFile[d].st = "ok"
            /\ digestFile' = [digestFile EXCEPT ![d].st = how]
            /\ UNCHANGED hashFile
         \/ /\ hashFile[d].st = "ok"
            /\ hashFile' = [hashFile EXCEPT ![d].st = how]
            /\ UNCHANGED digestFile
    /\ hist' = [hist EXCEPT !.changed = TRUE]
    /\ UNCHANGED <<treeVars, settings, files, pc, order, idx, digests, stats, ret>>

\* the next invocation is made with --force: caching is disabled from now on
RForce ==
    /\ pc = "idle"
    /\ ~hist.changed
    /\ hist.run > 0
    /\ settings.cache_enabled
    /\ settings' = [settings EXCEPT !.cache_enabled = FALSE]
    /\ hist' = [hist EXCEPT !.changed = TRUE]
    /\ UNCHANGED <<treeVars, fsVars, pc, order, idx, digests, stats, ret>>

\* analyzer.analyze(root) is called: capability check and analysis order
StartRun ==
    /\ pc = "idle"
    /\ hist.run < MaxRuns
    /\ \E avail \in BOOLEAN :
         \E s \in {RunStart(avail)} :
            /\ pc' = s.pc
            /\ order' = s.order
            /\ ret' = s.ret
            /\ hist' = [hist EXCEPT
                          !.run = @ + 1,
                          !.avail = avail,
                          !.outcome = [d \in dirs |-> "pending"],
                          !.attempts = [d \in dirs |-> 0],
                          !.inputs = [d \in dirs |-> << >>],
                          !.started = [df |-> digestFile, hf |-> hashFile, stats |-> stats],
                          !.prev = IF hist.run = 0 THEN hist.prev
                                   ELSE [done |-> ret.kind = "digest", order |-> order,
                                         ret |-> ret, outcome |-> hist.outcome]]
    /\ idx' = 1
    /\ digests' = NoDigests
    /\ UNCHANGED <<treeVars, settings, fsVars, stats>>

\* one iteration of the loop of analyze, over order[idx]
ProcessDirectory ==
    /\ pc = "running"
    /\ idx <= Len(order)
    /\ \E fault \in BOOLEAN, answer \in AIAnswers :
         \E d \in {order[idx]} :
         \E look \in {LookupCache(d)} :
         \E cds \in {GetChildDigests(d, digests)} :
         \E a \in {AnalyzeMiss(d, cds, answer, hist.run)} :
         \E sv \in {SaveIfAny(d, a)} :
         \E r \in {AnalyzeDirectory(look, fault, cds, a, sv)} :
            /\ digests' = RecordDigest(digests, d, r)
            /\ digestFile' = r.df
            /\ hashFile' = r.hf
            /\ stats' = [stats EXCEPT
                           !.cache_hits = @ + r.hits,
                           !.cache_misses = @ + r.misses,
                           !.ai_calls = @ + r.ai_calls,
                           !.directories_analyzed = @ + (IF r.got /\ ~r.exc THEN 1 ELSE 0),
                           !.errors = @ + (IF r.exc THEN 1 ELSE 0)]
            /\ hist' = [hist EXCEPT
                          !.outcome[d] = IF r.exc THEN "error"
                                         ELSE IF r.hits = 1 THEN "hit"
                                         ELSE IF r.got THEN "ok" ELSE "failed",
                          !.attempts[d] = @ + r.attempts,
                          !.inputs[d] = r.inputs]
    /\ idx' = idx + 1
    /\ UNCHANGED <<treeVars, settings, files, pc, order, ret>>

\* after the loop: the digest of the root, or the empty result
FinishRun ==
    /\ pc = "running"
    /\ idx > Len(order)
    /\ ret' = [kind |-> "digest",
               digest |-> IF Root \in DOMAIN digests THEN digests[Root]
                          ELSE CreateEmptyResult(hist.run)]
    /\ pc' = "done"
    /\ UNCHANGED <<treeVars, settings, fsVars, order, idx, digests, stats, hist>>

\* the caller has the result (or the AnalysisError) and may call again later
Return ==
    /\ pc \in {"done", "raised", "interrupted"}
    /\ hist.run < MaxRuns
    /\ pc' = "idle"
    /\ hist' = [hist EXCEPT !.changed = FALSE]
    /\ UNCHANGED <<treeVars, settings, fsVars, order, idx, digests, stats, ret>>

\* analyzer.dry_run(root) is called and returns to the caller, who stops there
CallDryRun ==
    /\ pc = "idle"
    /\ \E fault \in BOOLEAN :
         \E r \in {DryRun(fault)} : ret' = r
    /\ pc' = "dryrun"
    /\ UNCHANGED <<treeVars, settings, fsVars, order, idx, digests, stats, hist>>

NextRun ==
    \/ RMkdir \/ RChmod \/ RRelist \/ RDamage \/ RForce
    \/ StartRun \/ ProcessDirectory \/ FinishRun \/ Return \/ CallDryRun

SpecRun == InitRun /\ [][NextRun]_vars

\* the loop of analyze runs to its end: nothing in it waits
SpecRunFair == SpecRun /\ WF_vars(ProcessDirectory) /\ WF_vars(FinishRun)

\* the user interrupts the run while order[idx] is being processed
Interrupt ==
    /\ pc = "running"
    /\ idx <= Len(order)
    /\ \E stage \in InterruptStages, answer \in AIAnswers :
         \E d \in {order[idx]} :
         \E look \in {LookupCache(d)} :
         \E cds \in {GetChildDigests(d, digests)} :
         \E a \in {AnalyzeMiss(d, cds, answer, hist.run)} :
         \E sv \in {SaveIfAny(d, a)} :
         \E r \in {InterruptedAt(stage, d, look, cds, a, sv)} :
            /\ r.possible
            /\ digestFile' = r.df
            /\ hashFile' = r.hf
            /\ stats' = [stats EXCEPT !.cache_misses = @ + r.misses,
                                      !.ai_calls = @ + r.ai_calls]
            /\ ret' = r.ret
    /\ pc' = "interrupted"
    /\ UNCHANGED <<treeVars, settings, files, order, idx, digests, hist>>

NextCancel == NextRun \/ Interrupt

\* runs that the user may interrupt
SpecCancel == InitRun /\ [][NextCancel]_vars

\* the directories the loop has gone through in this run
Processed == {order[i] : i \in 1..Min(idx - 1, Len(order))}

Failed(d) == hist.outcome[d] \in {"failed", "error"}

\* C2: a directory B whose processing fails is not retried in that run, has no entry
\* in the completed digests, is not among the children handed to the aggregator for
\* its parent, and does not stop the run: every later directory is processed.
C2_FailureIsolation ==
    pc \in {"running", "done"} =>
        /\ \A b \in Processed :
              Failed(b) =>
                 /\ hist.attempts[b] <= 1
                 /\ Cardinality({i \in 1..Len(order) : order[i] = b}) = 1
                 /\ b \notin DOMAIN digests
                 /\ \A p \in dirs : b \notin Range(hist.inputs[p])
        /\ pc = "done" => \A i \in 1..Len(order) : hist.outcome[order[i]] # "pending"

\* C2 witness: B failed, its sibling did not, and the parent was aggregated afterwards
\* from the sibling alone
C2_Witness ==
    /\ pc = "done"
    /\ \E b \in Processed :
         /\ b # Root
         /\ Failed(b)
         /\ hist.outcome[Parent(b)] = "ok"
         /\ Len(hist.inputs[Parent(b)]) = 1

NumOutcome(o) == Cardinality({d \in dirs : hist.outcome[d] = o})

\* C3: every directory visited in a run counts under exactly one of hit, miss then
\* success, miss then error, and every directory that fails adds exactly 1 to the error
\* count (a first run: the counters start at 0).
C3_StatsPerOutcome ==
    (pc = "done" /\ hist.run = 1) =>
        /\ stats.cache_hits = NumOutcome("hit")
        /\ stats.directories_analyzed = NumOutcome("hit") + NumOutcome("ok")
        /\ stats.errors = NumOutcome("failed") + NumOutcome("error")

\* C4: when the external analysis is unavailable at the start of a run, the run raises
\* AnalysisError at once: no analysis order, no directory visited, no analysis or
\* aggregation, statistics and cache artifacts as they were.
C4_UnavailableFailsFast ==
    (hist.run > 0 /\ ~hist.avail /\ pc \notin {"idle", "dryrun"}) =>
        /\ pc = "raised"
        /\ ret.kind = "AnalysisError"
        /\ order = << >>
        /\ digests = NoDigests
        /\ \A d \in dirs : hist.outcome[d] = "pending" /\ hist.attempts[d] = 0
        /\ stats = hist.started.stats
        /\ digestFile = hist.started.df
        /\ hashFile = hist.started.hf

\* C4 witness: the second run finds the analysis unavailable while artifacts of the
\* first run are on disk
C4_Witness ==
    /\ pc = "raised"
    /\ hist.run = 2
    /\ \E d \in dirs : digestFile[d].st = "ok" /\ hashFile[d].st = "ok"

RootHasDigest == hist.outcome[Root] \in {"hit", "ok"}

SecondRun ==
    /\ pc = "done"
    /\ hist.run = 2
    /\ hist.prev.done
    /\ settings.cache_enabled
    /\ ~hist.changed

AllHits ==
    /\ ret = hist.prev.ret
    /\ NumOutcome("hit") = Len(hist.prev.order)
    /\ \A d \in dirs : hist.attempts[d] = 0

C15_DryRunReadOnly ==
    [][pc' = "dryrun" =>
          /\ digestFile' = digestFile /\ hashFile' = hashFile /\ files' = files
          /\ stats' = stats
          /\ digests' = digests
          /\ hist'.attempts = hist.attempts /\ hist'.outcome = hist.outcome
          /\ ret'.kind = "dry_run" => ret'.analysis_order = RunStart(TRUE).order]_vars

\* C15 witness: a dry run after a run that left artifacts and statistics, over a tree
\* with leaves and a parent
C15_Witness ==
    /\ pc = "dryrun"
    /\ ret.kind = "dry_run"
    /\ ret.parent_directories >= 1
    /\ ret.leaf_directories >= 2
    /\ stats.ai_calls >= 1
    /\ \E d \in dirs : digestFile[d].st = "ok"

\* d holds a valid cache entry: both artifacts, the stored fingerprint being current
ValidEntry(d) ==
    /\ digestFile[d].st = "ok" /\ hashFile[d].st = "ok"
    /\ d \notin unreadable
    /\ Strip(hashFile[d].data) = CalcHash(d).h

\* C16: with caching disabled a run serves no directory from the cache, whatever
\* artifacts exist, and creates, overwrites or deletes no artifact; get_cached_digest
\* answers a miss and save_digest returns without writing.
C16_CacheDisabled ==
    ~settings.cache_enabled =>
        /\ pc \in {"running", "done"} =>
              /\ digestFile = hist.started.df /\ hashFile = hist.started.hf
              /\ stats.cache_hits = hist.started.stats.cache_hits
              /\ \A d \in dirs : hist.outcome[d] # "hit"
        /\ \A d \in dirs :
              /\ GetCachedDigest(d, digestFile, hashFile) = Miss
              /\ \A x \in SampleDigests(d) :
                    SaveDigest(d, x, digestFile, hashFile)
                      = [raised |-> FALSE, df |-> digestFile, hf |-> hashFile]

\* C16 witness: a run with caching disabled has analysed every directory again although
\* each held a valid cache entry
C16_Witness ==
    /\ ~settings.cache_enabled
    /\ pc = "done"
    /\ Len(order) >= 2
    /\ \A i \in 1..Len(order) : ValidEntry(order[i]) /\ hist.outcome[order[i]] = "ok"

CompletedChildren(d) == {c \in VisibleChildren(d) : c \in DOMAIN digests}

\* C20: when a directory D misses and its analysis is reached (its directory
\* information was collected), D is sent to the Leaf Analyzer exactly when no
\* non-ignored child of D has a completed digest in this run, and otherwise the
\* aggregator is called with the completed digests of D's non-ignored children, each
\* once and no other; one of the two happens, never both, and aggregating makes no
\* call of the Leaf Analyzer.
C20_LeafOrParent ==
    [][(/\ pc = "running" /\ idx <= Len(order) /\ idx' = idx + 1
        /\ hist'.attempts[order[idx]] = hist.attempts[order[idx]] + 1)
       => LET d == order[idx]
              leaf == stats'.ai_calls = stats.ai_calls + 1
              ins == hist'.inputs[d]
          IN /\ stats'.ai_calls \in {stats.ai_calls, stats.ai_calls + 1}
             /\ leaf <=> CompletedChildren(d) = {}
             /\ leaf => ins = << >>
             /\ ~leaf =>
                   /\ Range(ins) = CompletedChildren(d)
                   /\ Len(ins) = Cardinality(CompletedChildren(d))
             /\ hist'.outcome[d] = "ok" =>
                   /\ digests'[d].children = ins
                   /\ ~leaf =>
                         /\ \A c \in CompletedChildren(d) : digests[c].wf
                         /\ digests'[d].kind
                              = DetermineAggregatedKind(
                                   [i \in 1..Len(ins) |-> digests[ins[i]]])]_vars

\* C20 witness: in the chain root, child, grandchild the grandchild failed, the child
\* was sent to the Leaf Analyzer for want of a completed child, and the root was
\* aggregated from the child alone: two calls of the Leaf Analyzer in three directories
C20_Witness ==
    /\ pc = "done"
    /\ hist.run = 1
    /\ \E d \in dirs \ {Root} :
          /\ VisibleChildren(d) # {}
          /\ \A c \in VisibleChildren(d) : hist.outcome[c] = "failed"
          /\ hist.outcome[d] = "ok"
          /\ digests[d].children = << >>
          /\ hist.outcome[Root] = "ok"
          /\ hist.inputs[Root] = <<d>>
    /\ stats.ai_calls = 2

\* C22: in every step of the loop over a directory d the cache lookup comes first: a
\* hit makes no Leaf Analyzer call, no aggregation and no write; an analysis or
\* aggregation happens only on a miss; the artifacts of d are written only when its
\* analysis or aggregation succeeded, and a directory that fails keeps the artifacts
\* it had.
C22_DirectoryLifecycle ==
    [][(pc = "running" /\ idx <= Len(order) /\ idx' = idx + 1)
       => LET d == order[idx]
              out == hist'.outcome[d]
              written == digestFile' # digestFile \/ hashFile' # hashFile
          IN /\ out = "hit" =>
                   /\ LookupCache(d).kind = "hit"
                   /\ stats'.ai_calls = stats.ai_calls
                   /\ hist'.attempts[d] = hist.attempts[d]
                   /\ ~written
             /\ hist'.attempts[d] > hist.attempts[d] => LookupCache(d).kind = "miss"
             /\ written => out = "ok" /\ hist'.attempts[d] > hist.attempts[d]
             /\ out \in {"failed", "error"} => ~written]_vars

\* ------------------------------------------------------------------ runs around an edit
\* A tree with one source file is analysed with caching enabled, one byte of the file
\* is changed (its modification time kept or moved on), and the tree is analysed again.
MaxEdits == 1

NoEdit == [made |-> FALSE, dir |-> Root, name |-> << >>, touched |-> FALSE]

InitInvalidate ==
    /\ dirs = {Root}
    /\ rootName = <<"a">>
    /\ unreadable = {}
    /\ lsRev = FALSE
    /\ settings = DefaultSettings
    /\ files = [d \in {Root} |-> {}]
    /\ digestFile = [d \in {Root} |-> NoArtifact]
    /\ hashFile = [d \in {Root} |-> NoArtifact]
    /\ pc = "idle"
    /\ order = << >>
    /\ idx = 0
    /\ digests = NoDigests
    /\ stats = NoStats
    /\ ret = NoReturn
    /\ hist = [k \in DOMAIN NoRun \cup {"edit"} |-> IF k = "edit" THEN NoEdit ELSE NoRun[k]]

\* before the first run a source file of one byte is written into a directory
VWriteFile ==
    /\ pc = "idle"
    /\ hist.run = 0
    /\ NumFiles < MaxEdits
    /\ \E d \in dirs, name \in FileNames : WriteNewFile(d, name, 1, <<"x">>, FALSE)
    /\ UNCHANGED <<treeVars, settings, digestFile, hashFile, runVars>>

\* between the runs the byte of the file is changed, by an editor that moves the
\* modification time on or by a tool that keeps it
VEditFile ==
    /\ pc = "idle"
    /\ hist.run = 1
    /\ ~hist.edit.made
    /\ \E d \in dirs :
         \E f \in files[d] :
           \E m \in {f.mtime, f.mtime + 1} :
             /\ WriteByte(d, f, 1, "y", m)
             /\ hist' = [hist EXCEPT !.edit = [made |-> TRUE, dir |-> d, name |-> f.name,
                                               touched |-> m # f.mtime]]
    /\ UNCHANGED <<treeVars, settings, digestFile, hashFile, pc, order, idx, digests, stats,
                   ret>>

NextInvalidate ==
    \/ RMkdir \/ VWriteFile \/ VEditFile
    \/ StartRun \/ ProcessDirectory \/ FinishRun \/ Return

SpecInvalidate == InitInvalidate /\ [][NextInvalidate]_vars

\* a run that gave every directory of the tree a digest came before the edit of an
\* included file of a leaf, and the run after the edit has gone through its order
EditedLeafRunAgain ==
    /\ hist.run = 2
    /\ pc = "done"
    /\ hist.edit.made
    /\ Children(hist.edit.dir) = {}
    /\ ~ShouldIgnoreFile(hist.edit.name)
    /\ \A d \in dirs : hist.prev.outcome[d] = "ok"

\* C23: in the run that follows a change of the content of an included file of a
\* leaf, with caching enabled, neither the leaf nor any of its ancestors up to the
\* root is served from the cache, whatever the outcome of the re-analysis of the leaf.
C23_InvalidationReachesRoot ==
    EditedLeafRunAgain =>
        \A a \in Ancestors(hist.edit.dir) : hist.outcome[a] # "hit"

\* C24: a directory whose listing raises PermissionError, reached through directories
\* that are not ignored, is among the leaves find_leaf_directories returns and in the
\* analysis order, and each of its ancestors up to the root stands after it there.
C24_UnlistableIsLeaf ==
    pc = "ordered" =>
        \A d \in unreadable :
            ~UnderIgnored(d) =>
                /\ d \in Range(FindLeafDirectories)
                /\ \E i \in 1..Len(order) :
                      /\ order[i] = d
                      /\ \A a \in Ancestors(d) \ {d} : \E j \in (i + 1)..Len(order) : order[j] = a

\* ------------------------------------------------------------------ a crash inside save_digest
\* save_digest(d, x) when the process dies after json.dump wrote digest.json and before
\* .digin_hash is opened for writing: the files left on disk
CrashedSave(d, x, df, hf) ==
    [possible |-> settings.cache_enabled /\ df[d].st # "unreadable",
     df |-> [df EXCEPT ![d] = [st |-> "ok", data |-> JsonDump(x)]],
     hf |-> hf]

\* cache_manager.save_digest(d, x) is called and the process dies between the writes
CrashInSaveDigest ==
    /\ hist.saves < MaxSaves
    /\ \E d \in dirs :
         \E x \in SampleDigests(d) :
           \E r \in {CrashedSave(d, x, digestFile, hashFile)} :
              /\ r.possible
              /\ digestFile' = r.df
              /\ hashFile' = r.hf
              /\ hist' = [hist EXCEPT !.last = "crash", !.dir = d, !.x = x,
                                      !.saveok = FALSE, !.changed = FALSE,
                                      !.saves = @ + 1]
    /\ ret' = NoReturn
    /\ UNCHANGED <<treeVars, settings, files, pc, order, idx, digests, stats>>

NextCrash ==
    \/ CMkdir \/ CCreateFile
    \/ CallSaveDigest \/ CrashInSaveDigest \/ CallGetCachedDigest

SpecCrash == InitCache /\ [][NextCrash]_vars

\* C25: the lookup that follows a save_digest(d, x) which died between its two writes,
\* for the same directory and with no change of the file system in between, is a miss.
C25_CrashIsMiss ==
    [][(hist.last = "crash" /\ hist'.last = "get" /\ hist'.getdir = hist.dir)
         => ret' = Miss]_vars

\* the directories reached from the root through directories that are not ignored
InScope == {d \in dirs : \A k \in 1..Len(d) : ~ShouldIgnoreDirectory(SubSeq(d, 1, k))}

\* C26: get_analysis_order(root) holds the root and every directory reached from it
\* through directories that are not ignored, each exactly once, and nothing else.
C26_OrderCoversScope ==
    pc = "ordered" =>
        /\ Range(order) = InScope
        /\ \A i, j \in 1..Len(order) : order[i] = order[j] => i = j

\* ------------------------------------------------------------------ traversal and listing order
\* the file system lists directory entries in another order from now on
Relist ==
    /\ lsRev' = ~lsRev
    /\ UNCHANGED <<dirs, rootName, unreadable, settings, fsVars, runVars>>

NextListing == Mkdir \/ Chmod \/ Relist \/ CallGetAnalysisOrder

SpecListing == InitOrder /\ [][NextListing]_vars

\* the lists next_level of the while loop of get_analysis_order, one per iteration
RECURSIVE PromotionLevels(_, _)
PromotionLevels(current, processed) ==
    IF current = << >> THEN << >>
    ELSE LET r == GetNextLevelParents(current, 1, processed, << >>)
         IN <<r.next>> \o PromotionLevels(r.next, r.processed)

\* C27: whichever way the file system lists the entries, before or after the call,
\* the order get_analysis_order returned is the one it returns for the same tree and
\* settings now; it begins with the leaf directories in ascending path order, and
\* two directories of one parent promoted in the same level stand in ascending
\* path order.
C27_OrderDeterministic ==
    pc = "ordered" =>
         /\ order = GetAnalysisOrder
         /\ \A leaves \in {ScanDirectory(Root)} :
               \A n \in {IF ShouldIgnoreDirectory(Root) THEN 0 ELSE Cardinality(leaves)} :
                  /\ n <= Len(order)
                  /\ \A i \in 1..n : order[i] \in leaves
                  /\ \A i, j \in 1..n : i < j => PathLess(order[i], order[j])
         /\ \A found \in {FindLeafDirectories} :
               \A levels \in {PromotionLevels(found, Range(found))} :
                  \A k \in 1..Len(levels) :
                     \A i, j \in 1..Len(levels[k]) :
                        (i < j /\ Parent(levels[k][i]) = Parent(levels[k][j]))
                           => PathLess(levels[k][i], levels[k][j])

\* C27 witness: the file system lists in reverse order; two leaves of different
\* parents come first in ascending order and their parents, promoted in one level,
\* follow in ascending order
C27_Witness ==
    /\ pc = "ordered"
    /\ lsRev
    /\ Len(order) = 5
    /\ Parent(order[1]) = order[3]
    /\ Parent(order[2]) = order[4]
    /\ PathLess(order[1], order[2])
    /\ PathLess(order[3], order[4])
    /\ order[5] = Root

\* ------------------------------------------------------------------ statistics of a later run
\* C28: the statistics an orchestrator reports count one run only, also when it has
\* run before: while a run is under way the hits and the misses together are the
\* directories visited so far in this run, none before the first directory, and
\* after the run the hits are the directories this run served from the cache.
C28_StatsPerRun ==
    /\ pc = "running" => stats.cache_hits + stats.cache_misses = idx - 1
    /\ pc = "done" =>
          /\ stats.cache_hits + stats.cache_misses = Len(order)
          /\ stats.cache_hits = NumOutcome("hit")

\* ------------------------------------------------------------------ the two artifacts together
\* save_digest and clear_cache on a tree whose files and permissions change in between
NextArtifacts == CMkdir \/ CCreateFile \/ CChmod \/ CallSaveDigest \/ CallClearCache

SpecArtifacts == InitCache /\ [][NextArtifacts]_vars

\* C29: between the calls of save_digest and clear_cache every directory has a
\* digest artifact exactly when it has a fingerprint artifact, and right after a
\* save_digest(d, x) the stored fingerprint of d is the fingerprint of d as it is.
C29_ArtifactsPaired ==
    /\ \A d \in dirs : (digestFile[d].st = "absent") <=> (hashFile[d].st = "absent")
    /\ (hist.last = "save" /\ ~hist.changed /\ digestFile[hist.dir].st = "ok") =>
          \E h \in {CalculateDirectoryHash(hist.dir, digestFile, hashFile)} :
             /\ ~h.raised
             /\ hashFile[hist.dir] = [st |-> "ok", data |-> h.h]

====
